---- MODULE Spec2Model ----
(***************************************************************************)
(* Optimizarr: the job lifecycle engine (queue, encoder pool, encoding     *)
(* job, finalisation, stop, resource monitor), the profile table and the   *)
(* intake paths (scanner, folder watcher, external sync, webhooks).        *)
(*                                                                         *)
(* Threads are modelled by program counters; one action is one step of a   *)
(* thread between two points where another thread can observe or change    *)
(* shared state (a database transaction, a file-system call, a signal).    *)
(***************************************************************************)
EXTENDS Integers, Sequences, FiniteSets, TLC

\* ------------------------------------------------------------------ bounds
MaxItems == 2
MaxLoops == 2
MaxProfiles == 3
MaxWriters == 2
MaxScanners == 2
MaxQueue == 2

\* -------------------------------------------------------- program constants
max_concurrent == 1

Items == 1..MaxItems
Loops == 1..MaxLoops
ProfileIds == 1..MaxProfiles
Writers == 1..MaxWriters
Scanners == 1..MaxScanners

\* ------------------------------------------------------------------- state
VARIABLES
  queue,        \* queue table: item id -> row
  history,      \* history table: sequence of rows, in insertion order
  fs,           \* file system: path -> content
  is_running,   \* EncoderPool.is_running
  active_jobs,  \* EncoderPool.active_jobs (a job is named by the loop thread that owns it)
  pc,           \* loop thread -> position in process_queue / EncodingJob.start
  job,          \* loop thread -> fields of its EncodingJob object
  mon,          \* loop thread -> position of the job's _monitor_resources thread
  stopper,      \* the thread running EncoderPool.stop(): position and remaining jobs
  throttle,     \* resource_throttler: who made the last check, and the last call's readings and answer
  profiles,     \* profiles table (committed rows)
  next_profile_id, \* the AUTOINCREMENT counter of the profiles table
  db_writer,    \* the thread holding SQLite's write lock on the profiles database, or 0
  pw,           \* profile writer thread -> its call and its open transaction
  scan,         \* scanner thread -> position in scan_root and the files left
  watcher,      \* FolderWatcher: "off" or "polling"
  known_files,  \* FolderWatcher._known_files: watch id -> files (the one watch has id 1)
  new_files,    \* new_files of the watcher's last pass
  initial_files, \* the files on disk when _initial_scan ran (kept to state properties)
  scan_roots,   \* scan_roots table: set of rows
  sweep,        \* the thread running scan_all_roots: position, roots left, sum so far
  assessed,     \* a probed file: the arguments and results of _needs_encoding and _estimate_savings
  schedule,     \* the row of the schedule table
  schedule_config, \* ScheduleManager.schedule_config, as load_schedule built it
  is_enabled,   \* ScheduleManager.is_enabled
  schedule_check, \* the cron job 'schedule_check' is registered with the scheduler
  manual_override, \* ScheduleManager.manual_override
  now,          \* what datetime.now() returned to the last caller of the scheduler
  within_schedule \* 'within_schedule' of the last get_status() response

engineVars == <<queue, history, fs, is_running, active_jobs, pc, job, mon, stopper, throttle>>
profileVars == <<profiles, next_profile_id, db_writer, pw>>
intakeVars == <<scan, watcher, known_files, new_files, initial_files, scan_roots, sweep, assessed>>
scheduleVars == <<schedule, schedule_config, is_enabled, schedule_check, manual_override,
                  now, within_schedule>>
vars == <<engineVars, throttle, profileVars, intakeVars, scheduleVars>>

\* ------------------------------------------------------------ file system
\* A path is <parent>/<stem>{_optimized}^opt.<ext>; all files share one parent.
Exts == {"mkv", "mp4"}
Paths == [stem : Items, ext : Exts, opt : 0..1]

\* "none": no file; "src": a file that still needs encoding; "enc": a complete
\* transcoder output; "part": an incomplete transcoder output; "empty": a file
\* of 0 bytes.
Contents == {"none", "src", "enc", "part", "empty"}

\* The library file of item i: odd stems are .mkv, even stems are .mp4.
LibraryPath(i) == [stem |-> i, ext |-> IF i % 2 = 1 THEN "mkv" ELSE "mp4", opt |-> 0]

\* The profile every queue item of the engine model references.
ProfileContainer == "mkv"

\* ext_map.get(container, '.mkv')
OutputExt(container) ==
  CASE container = "mkv" -> "mkv"
    [] container = "mp4" -> "mp4"
    [] container = "webm" -> "webm"
    [] OTHER -> "mkv"

\* input_path.parent / f"{input_path.stem}_optimized{output_ext}"
OutputPath(p) == [stem |-> p.stem, ext |-> OutputExt(ProfileContainer), opt |-> p.opt + 1]

\* input_path.parent / f"{input_path.stem}{output_ext}"
FinalPath(p) == [stem |-> p.stem, ext |-> OutputExt(ProfileContainer), opt |-> p.opt]

\* ------------------------------------------------------------------ queue
Statuses == {"pending", "processing", "paused", "completed", "failed", "permission_error"}
ProgressValues == {50, 100}

\* The row add_to_queue inserts: progress 0.0, completed_at NULL, no messages;
\* root_id 0 is NULL; upscale_plan is TRUE for a row that holds a plan, and no
\* caller that reaches add_to_queue passes one.
NewRow(path, root_id, status, priority) ==
  [file_path |-> path, root_id |-> root_id, profile_id |-> 1, status |-> status,
   priority |-> priority, progress |-> 0,
   completed_at |-> FALSE, error_message |-> "", paused_reason |-> "",
   upscale_plan |-> FALSE]

\* UPDATE queue SET <fields of upd> WHERE id = item_id
update_queue_item(q, item_id, upd) ==
  [q EXCEPT ![item_id] =
     [f \in DOMAIN @ |-> IF f \in DOMAIN upd THEN upd[f] ELSE @[f]]]

\* True iff row a comes before row b in ORDER BY priority DESC, created_at
\* (created_at grows with the id).
QueueBefore(q, a, b) ==
  \/ q[a].priority > q[b].priority
  \/ q[a].priority = q[b].priority /\ a < b

\* get_queue_items(status='pending'): the ids of the pending rows
PendingItems(q) == {i \in DOMAIN q : q[i].status = "pending"}

\* pending_items[0]: the first row of the ordered result
FirstPending(q) ==
  CHOOSE i \in PendingItems(q) : \A k \in PendingItems(q) \ {i} : QueueBefore(q, i, k)

\* ------------------------------------------------------------ job objects
\* proc: "none" (self.process is None), "running", "suspended" (SIGSTOP),
\* "suspended_term" (suspended with a SIGTERM pending), "exited".
\* resolution: the profile's resolution text as split('x') cuts it, << >> for
\* the empty text.
\* input: the file the command names after -i; upscale: "not_run" as long as
\* run_upscale_pipeline has not been called for the job.
NoJob == [item |-> 0, proc |-> "none", rc |-> 0, is_paused |-> FALSE, stop_monitoring |-> FALSE,
          resolution |-> << >>, input |-> [stem |-> 1, ext |-> "mkv", opt |-> 0],
          upscale |-> "not_run"]

\* EncodingJob.__init__(item['id'], profile, resource_limits)
NewJob(i, resolution) == [NoJob EXCEPT !.item = i, !.resolution = resolution]

\* The resolution texts a profile row can hold (the API takes any string): '',
\* '1280x720', '720p', '1280x720x2'.
Resolutions == {<< >>, <<"1280", "720">>, <<"720p">>, <<"1280", "720", "2">>}

\* build_command: if self.profile.get('resolution'):
\*     width, height = self.profile['resolution'].split('x')
\* The unpacking raises ValueError unless split returns two parts.
BuildCommandRaises(resolution) == resolution # << >> /\ Len(resolution) # 2

Alive(j) == j.proc \in {"running", "suspended", "suspended_term"}

JobPath(l) == queue[job[l].item].file_path

\* --------------------------------------------------------- ResourceMonitor
\* get_gpu_usage(): None without GPU monitoring or when pynvml raises, else one
\* entry per device. A reading is [cpu, memory, gpu_available, nvml_ok, gpus],
\* gpus being the devices' utilisation; the answer is [stats, none].
get_gpu_usage(usage) ==
  IF usage.gpu_available /\ usage.nvml_ok
    THEN [none |-> FALSE, stats |-> usage.gpus]
    ELSE [none |-> TRUE, stats |-> << >>]

\* check_thresholds with >= in the place of >.
CheckThresholdsNotStrict(usage, cpu_threshold, memory_threshold, gpu_threshold) ==
  LET gpu_stats == get_gpu_usage(usage)
      seen == usage.gpu_available /\ ~gpu_stats.none /\ gpu_stats.stats # << >>
      max_gpu_usage == IF seen
                         THEN CHOOSE x \in {gpu_stats.stats[k] : k \in DOMAIN gpu_stats.stats} :
                                \A k \in DOMAIN gpu_stats.stats : gpu_stats.stats[k] <= x
                         ELSE -1
  IN  [cpu_exceeded |-> usage.cpu >= cpu_threshold,
       memory_exceeded |-> usage.memory >= memory_threshold,
       gpu_exceeded |-> seen /\ max_gpu_usage >= gpu_threshold,
       should_pause |-> \/ usage.cpu >= cpu_threshold
                        \/ usage.memory >= memory_threshold
                        \/ seen /\ max_gpu_usage >= gpu_threshold,
       cpu_usage |-> usage.cpu, memory_usage |-> usage.memory, gpu_usage |-> max_gpu_usage]

\* check_thresholds(cpu_threshold, memory_threshold, gpu_threshold) for one
\* reading; gpu_usage -1 stands for None.
check_thresholds(usage, cpu_threshold, memory_threshold, gpu_threshold) ==
  LET gpu_stats == get_gpu_usage(usage)
      seen == usage.gpu_available /\ ~gpu_stats.none /\ gpu_stats.stats # << >>
      max_gpu_usage == IF seen
                         THEN CHOOSE x \in {gpu_stats.stats[k] : k \in DOMAIN gpu_stats.stats} :
                                \A k \in DOMAIN gpu_stats.stats : gpu_stats.stats[k] <= x
                         ELSE -1
      cpu_exceeded == usage.cpu > cpu_threshold
      memory_exceeded == usage.memory > memory_threshold
      gpu_exceeded == seen /\ max_gpu_usage > gpu_threshold
  IN  [cpu_exceeded |-> cpu_exceeded,
       memory_exceeded |-> memory_exceeded,
       gpu_exceeded |-> gpu_exceeded,
       should_pause |-> cpu_exceeded \/ memory_exceeded \/ gpu_exceeded,
       cpu_usage |-> usage.cpu, memory_usage |-> usage.memory, gpu_usage |-> max_gpu_usage]

\* ResourceThrottler(): last_check = 0, nothing sampled yet. last_check names the
\* monitor thread whose call made the last check (0: none), checked tells
\* whether the latest call of should_pause_encoding made one.
NoCheck ==
  [last_check |-> 0, checked |-> FALSE, should_pause |-> FALSE,
   sample |-> [cpu |-> 0, memory |-> 0, gpu_available |-> FALSE, nvml_ok |-> FALSE, gpus |-> << >>],
   thresholds |-> [cpu_exceeded |-> FALSE, memory_exceeded |-> FALSE, gpu_exceeded |-> FALSE,
                   should_pause |-> FALSE, cpu_usage |-> 0, memory_usage |-> 0, gpu_usage |-> -1]]

\* should_pause_encoding, called by the monitor thread of loop l:
\*   if current_time - self.last_check < self.check_interval: return False, ""
\*   self.last_check = current_time; result = self.monitor.check_thresholds(...)
\* elapsed: check_interval has passed since last_check. The thresholds are the
\* defaults of the resource settings.
should_pause_encoding(l, usage, elapsed) ==
  throttle' =
    IF ~elapsed
      THEN [throttle EXCEPT !.checked = FALSE, !.should_pause = FALSE]
      ELSE [last_check |-> l, checked |-> TRUE, sample |-> usage,
            thresholds |-> check_thresholds(usage, 90, 85, 90),
            should_pause |-> check_thresholds(usage, 90, 85, 90).should_pause]

\* GET /resources/thresholds: resource_monitor.check_thresholds with the
\* defaults of the query; the readings and the response are kept.
check_resource_thresholds(cpu, memory, gpu_available, nvml_ok, gpus) ==
  /\ LET usage == [cpu |-> cpu, memory |-> memory, gpu_available |-> gpu_available,
                   nvml_ok |-> nvml_ok, gpus |-> gpus]
     IN  throttle' = [throttle EXCEPT !.sample = usage,
                                     !.thresholds = check_thresholds(usage, 90, 85, 90)]
  /\ UNCHANGED <<queue, history, fs, is_running, active_jobs, pc, job, mon, stopper,
                 profileVars, intakeVars, scheduleVars>>

\* ------------------------------------------------------------------- Init
\* The engine starts on a queue that earlier scans filled: every library file
\* exists, has one row, and the row is pending or (permission check failed)
\* permission_error.
EngineInit ==
  /\ fs = [p \in Paths |-> IF p.opt = 0 /\ p = LibraryPath(p.stem) THEN "src" ELSE "none"]
  /\ \E st \in [Items -> {"pending", "permission_error"}] :
       queue = [i \in Items |-> NewRow(LibraryPath(i), 1, st[i], 50)]
  /\ history = << >>
  /\ is_running = FALSE
  /\ active_jobs = {}
  /\ pc = [l \in Loops |-> "idle"]
  /\ job = [l \in Loops |-> NoJob]
  /\ mon = [l \in Loops |-> "off"]
  /\ stopper = [pc |-> "idle", todo |-> {}, cur |-> 0]
  /\ throttle = NoCheck

\* ------------------------------------------------- EncoderPool.process_queue
\* A loop thread exists once a caller has handed process_queue to a worker
\* thread; its first statement sets is_running.
ProcessQueueBegin(l) ==
  /\ pc[l] = "spawned"
  /\ is_running' = TRUE
  /\ pc' = [pc EXCEPT ![l] = "loop"]
  /\ UNCHANGED <<queue, history, fs, active_jobs, job, mon, stopper, throttle, profileVars, intakeVars, scheduleVars>>

\* while self.is_running: if len(self.active_jobs) < self.max_concurrent: ...
\* else: time.sleep(1)
PoolLoopTop(l) ==
  /\ pc[l] = "loop"
  /\ pc' = [pc EXCEPT ![l] =
              IF ~is_running THEN "idle"
              ELSE IF Cardinality(active_jobs) < max_concurrent THEN "select"
              ELSE "loop"]
  /\ UNCHANGED <<queue, history, fs, is_running, active_jobs, job, mon, stopper, throttle, profileVars, intakeVars, scheduleVars>>

\* pending_items = db.get_queue_items(status='pending'); item = pending_items[0];
\* job = EncodingJob(item['id'], ...); self.active_jobs.append(job)
\* With no pending item the loop breaks and the thread ends; is_running is
\* left as it is. A loop whose job stop() still has to deal with takes no new
\* item before stop() has dealt with it. resolution is what the row returned by
\* db.get_profile(item['profile_id']) holds. If get_profile returns None
\* (`if profile:` has no else) the thread sleeps a second and runs the loop again.
PoolSelect(l, resolution) ==
  /\ pc[l] = "select"
  /\ l \notin stopper.todo
  /\ IF PendingItems(queue) = {}
       THEN /\ pc' = [pc EXCEPT ![l] = "idle"]
            /\ UNCHANGED <<active_jobs, job>>
       ELSE IF \A r \in profiles : r.id # queue[FirstPending(queue)].profile_id
       THEN /\ pc' = [pc EXCEPT ![l] = "loop"]
            /\ UNCHANGED <<active_jobs, job>>
       ELSE /\ job' = [job EXCEPT ![l] = NewJob(FirstPending(queue), resolution)]
            /\ active_jobs' = active_jobs \cup {l}
            /\ pc' = [pc EXCEPT ![l] = "start"]
  /\ UNCHANGED <<queue, history, fs, is_running, mon, stopper, throttle, profileVars, intakeVars, scheduleVars>>

\* self.active_jobs.remove(job); time.sleep(1)
PoolRemoveJob(l) ==
  /\ pc[l] = "remove"
  /\ active_jobs' = active_jobs \ {l}
  /\ pc' = [pc EXCEPT ![l] = "loop"]
  /\ UNCHANGED <<queue, history, fs, is_running, job, mon, stopper, throttle, profileVars, intakeVars, scheduleVars>>

\* ---------------------------------------------------------- EncodingJob.start
\* db.update_queue_item(id, status='processing', started_at=...);
\* cmd = self.build_command()
\* build_command is called before the try block: what it raises leaves start()
\* and process_queue, neither of which catches it, and the thread ends with the
\* job still in active_jobs. The command is
\* ['HandBrakeCLI', '-i', self.queue_item['file_path'], '-o', output_file, ...];
\* start() does not read the item's upscale_plan.
JobStart(l) ==
  /\ pc[l] = "start"
  /\ queue' = update_queue_item(queue, job[l].item, [status |-> "processing"])
  /\ job' = [job EXCEPT ![l].input = JobPath(l)]
  /\ pc' = [pc EXCEPT ![l] = IF BuildCommandRaises(job[l].resolution) THEN "idle" ELSE "spawn"]
  /\ UNCHANGED <<history, fs, is_running, active_jobs, mon, stopper, throttle, profileVars, intakeVars, scheduleVars>>

\* subprocess.Popen(cmd, ...) and the start of the monitoring thread
\* (enable_throttling, the default); the child opens its output file. When
\* Popen raises, the except clause marks the item failed.
JobSpawn(l, ok) ==
  /\ pc[l] = "spawn"
  /\ mon[l] = "off"
  /\ IF ok
       THEN /\ job' = [job EXCEPT ![l].proc = "running"]
            /\ fs' = [fs EXCEPT ![OutputPath(JobPath(l))] = "part"]
            /\ mon' = [mon EXCEPT ![l] = "check"]
            /\ pc' = [pc EXCEPT ![l] = "reading"]
            /\ UNCHANGED queue
       ELSE /\ queue' = update_queue_item(queue, job[l].item,
                          [status |-> "failed", error_message |-> "exception"])
            /\ pc' = [pc EXCEPT ![l] = "remove"]
            /\ UNCHANGED <<job, mon, fs>>
  /\ UNCHANGED <<history, is_running, active_jobs, stopper, throttle, profileVars, intakeVars, scheduleVars>>

\* for line in self.process.stdout: ... db.update_queue_item(id, progress=...)
JobProgress(l, p) ==
  /\ pc[l] = "reading"
  /\ job[l].proc = "running"
  /\ queue' = update_queue_item(queue, job[l].item, [progress |-> p])
  /\ UNCHANGED <<history, fs, is_running, active_jobs, pc, job, mon, stopper, throttle, profileVars, intakeVars, scheduleVars>>

\* The transcoder child ends by itself with return code rc. With rc = 0 it
\* leaves a complete output, a file of 0 bytes, or no file (output = "enc",
\* "empty", "none"); otherwise the partial output stays.
TranscoderExit(l, rc, output) ==
  /\ job[l].proc = "running"
  /\ rc \in {0, 1}
  /\ output \in {"enc", "empty", "none"}
  /\ rc = 1 => output = "enc"
  /\ job' = [job EXCEPT ![l].proc = "exited", ![l].rc = rc]
  /\ fs' = [fs EXCEPT ![OutputPath(JobPath(l))] =
              IF rc # 0 THEN @ ELSE output]
  /\ UNCHANGED <<queue, history, is_running, active_jobs, pc, mon, stopper, throttle, profileVars, intakeVars, scheduleVars>>

\* An error message that does not name the return code.
ExitMessageWithoutCode(return_code) == "Encoding failed"

\* f"HandBrakeCLI exited with code {return_code}"
ExitCodeMessage(return_code) ==
  IF return_code = 1 THEN "HandBrakeCLI exited with code 1"
  ELSE "HandBrakeCLI exited with code 0"

\* return_code = self.process.wait(): 0 goes on to _finalize_encoding, anything
\* else marks the item failed with the exit code.
JobWait(l) ==
  /\ pc[l] = "reading"
  /\ job[l].proc = "exited"
  /\ IF job[l].rc = 0
       THEN /\ pc' = [pc EXCEPT ![l] = "fin_check"]
            /\ UNCHANGED queue
       ELSE /\ queue' = update_queue_item(queue, job[l].item,
                          [status |-> "failed", error_message |-> ExitCodeMessage(job[l].rc)])
            /\ pc' = [pc EXCEPT ![l] = "remove"]
  /\ UNCHANGED <<history, fs, is_running, active_jobs, job, mon, stopper, throttle, profileVars, intakeVars, scheduleVars>>

\* ------------------------------------------- EncodingJob._finalize_encoding
\* The item is marked failed and finalisation ends (the except clause, or the
\* early return for a missing output).
FinalizeFailed(l, msg) ==
  /\ queue' = update_queue_item(queue, job[l].item,
                [status |-> "failed", error_message |-> msg])
  /\ pc' = [pc EXCEPT ![l] = "remove"]

\* if not output_path.exists(): failed 'Output file not found'; return
\* original_size = input_path.stat().st_size raises when the input is gone; that
\* exception is caught by start(), which marks the item failed.
FinalizeCheck(l) ==
  /\ pc[l] = "fin_check"
  /\ IF fs[OutputPath(JobPath(l))] = "none"
       THEN FinalizeFailed(l, "Output file not found")
       ELSE IF fs[JobPath(l)] = "none"
         THEN FinalizeFailed(l, "exception")
         ELSE /\ pc' = [pc EXCEPT ![l] = "fin_unlink"]
              /\ UNCHANGED queue
  /\ UNCHANGED <<history, fs, is_running, active_jobs, job, mon, stopper, throttle, profileVars, intakeVars, scheduleVars>>

\* input_path.unlink(): raises when the file is gone or (ok = FALSE) the
\* operating system refuses.
FinalizeUnlink(l, ok) ==
  /\ pc[l] = "fin_unlink"
  /\ IF ok /\ fs[JobPath(l)] # "none"
       THEN /\ fs' = [fs EXCEPT ![JobPath(l)] = "none"]
            /\ pc' = [pc EXCEPT ![l] = "fin_rename"]
            /\ UNCHANGED queue
       ELSE /\ FinalizeFailed(l, "Finalization error")
            /\ UNCHANGED fs
  /\ UNCHANGED <<history, is_running, active_jobs, job, mon, stopper, throttle, profileVars, intakeVars, scheduleVars>>

\* output_path.rename(final_path): raises when the output is gone or (ok =
\* FALSE) the operating system refuses; otherwise it replaces whatever is at
\* final_path.
FinalizeRename(l, ok) ==
  /\ pc[l] = "fin_rename"
  /\ IF ok /\ fs[OutputPath(JobPath(l))] # "none"
       THEN /\ fs' = [fs EXCEPT ![FinalPath(JobPath(l))] = fs[OutputPath(JobPath(l))],
                                ![OutputPath(JobPath(l))] = "none"]
            /\ pc' = [pc EXCEPT ![l] = "fin_mark"]
            /\ UNCHANGED queue
       ELSE /\ FinalizeFailed(l, "Finalization error")
            /\ UNCHANGED fs
  /\ UNCHANGED <<history, is_running, active_jobs, job, mon, stopper, throttle, profileVars, intakeVars, scheduleVars>>

\* db.update_queue_item(id, status='completed', progress=100.0, completed_at=...)
\* ok = FALSE: the statement raises (sqlite3.OperationalError).
FinalizeMark(l, ok) ==
  /\ pc[l] = "fin_mark"
  /\ IF ok
       THEN /\ queue' = update_queue_item(queue, job[l].item,
                          [status |-> "completed", progress |-> 100, completed_at |-> TRUE])
            /\ pc' = [pc EXCEPT ![l] = "fin_hist"]
       ELSE FinalizeFailed(l, "Finalization error")
  /\ UNCHANGED <<history, fs, is_running, active_jobs, job, mon, stopper, throttle, profileVars, intakeVars, scheduleVars>>

\* INSERT INTO history (file_path, ...) VALUES (str(final_path), ...)
\* ok = FALSE: the statement raises.
FinalizeHistory(l, ok) ==
  /\ pc[l] = "fin_hist"
  /\ IF ok
       THEN /\ history' = Append(history,
                            [file_path |-> FinalPath(JobPath(l)), item |-> job[l].item, loop |-> l])
            /\ pc' = [pc EXCEPT ![l] = "remove"]
            /\ UNCHANGED queue
       ELSE /\ FinalizeFailed(l, "Finalization error")
            /\ UNCHANGED history
  /\ UNCHANGED <<fs, is_running, active_jobs, job, mon, stopper, throttle, profileVars, intakeVars, scheduleVars>>

\* ------------------------------------------- EncodingJob._monitor_resources
\* while not self.stop_monitoring and self.process and self.process.poll() is None:
\*     time.sleep(5)
MonitorCheck(l) ==
  /\ mon[l] = "check"
  /\ mon' = [mon EXCEPT ![l] =
               IF ~job[l].stop_monitoring /\ Alive(job[l]) THEN "sleep" ELSE "off"]
  /\ UNCHANGED <<queue, history, fs, is_running, active_jobs, pc, job, stopper, throttle, profileVars, intakeVars, scheduleVars>>

\* The child after SIGSTOP: a running child is suspended, anything else is as
\* it was (send_signal does nothing for a child that has ended).
AfterSigstop(proc) == IF proc = "running" THEN "suspended" ELSE proc

\* The child after SIGCONT: a suspended child runs again; one with a SIGTERM
\* pending is ended by it.
AfterSigcont(proc) ==
  CASE proc = "suspended" -> "running"
    [] proc = "suspended_term" -> "exited"
    [] OTHER -> proc

\* pause(reason): if self.process and not self.is_paused: SIGSTOP, is_paused,
\* status='paused', paused_reason=reason
pause(l) ==
  /\ job' = [job EXCEPT ![l].proc = AfterSigstop(@), ![l].is_paused = TRUE]
  /\ queue' = update_queue_item(queue, job[l].item,
                [status |-> "paused", paused_reason |-> "resources"])

\* resume(): if self.process and self.is_paused: SIGCONT, is_paused cleared,
\* status='processing', paused_reason=None
resume(l) ==
  /\ job' = [job EXCEPT ![l].proc = AfterSigcont(@),
                        ![l].rc = IF job[l].proc = "suspended_term" THEN 1 ELSE @,
                        ![l].is_paused = FALSE]
  /\ queue' = update_queue_item(queue, job[l].item,
                [status |-> "processing", paused_reason |-> ""])

\* The body of the monitor loop after the sleep, for one reading of the
\* machine (CPU and memory percentages, GPU monitoring, pynvml answering, the
\* devices' utilisation). The thread has slept 5 s since its own last call, so
\* the interval has passed unless another monitor thread made the last check.
MonitorAct(l, cpu, memory, gpu_available, nvml_ok, gpus, elapsed) ==
  /\ mon[l] = "sleep"
  /\ throttle.last_check \in {0, l} => elapsed
  /\ should_pause_encoding(l, [cpu |-> cpu, memory |-> memory, gpu_available |-> gpu_available,
                               nvml_ok |-> nvml_ok, gpus |-> gpus], elapsed)
  /\ IF throttle'.should_pause /\ ~job[l].is_paused /\ job[l].proc # "none"
       THEN pause(l)
       ELSE IF ~throttle'.should_pause /\ job[l].is_paused /\ job[l].proc # "none"
         THEN resume(l)
         ELSE UNCHANGED <<job, queue>>
  /\ mon' = [mon EXCEPT ![l] = "check"]
  /\ UNCHANGED <<history, fs, is_running, active_jobs, pc, stopper, profileVars, intakeVars, scheduleVars>>

\* ------------------------------------------------------------ EncoderPool.stop
\* self.is_running = False; for job in self.active_jobs: job.stop()
stop ==
  /\ stopper.pc = "idle"
  /\ is_running' = FALSE
  /\ stopper' = [pc |-> IF active_jobs = {} THEN "idle" ELSE "jobs",
                 todo |-> active_jobs, cur |-> 0]

\* The child after terminate(): a running child ends, a suspended child keeps
\* the SIGTERM pending, a child that has ended is as it was.
AfterSigterm(proc) ==
  CASE proc = "running" -> "exited"
    [] proc = "suspended" -> "suspended_term"
    [] OTHER -> proc

\* The stopper has dealt with job l.
StopperNext(l) ==
  [pc |-> IF stopper.todo \ {l} = {} THEN "idle" ELSE "jobs",
   todo |-> stopper.todo \ {l}, cur |-> 0]

\* EncodingJob.stop(), first half: stop_monitoring = True; if self.process:
\* terminate(); wait(timeout=10). The wait times out on a child that stays
\* suspended: the except clause prints and stop() returns.
JobStopTerminate(l) ==
  /\ stopper.pc = "jobs"
  /\ l \in stopper.todo
  /\ job' = [job EXCEPT ![l].stop_monitoring = TRUE,
                        ![l].proc = AfterSigterm(@),
                        ![l].rc = IF job[l].proc = "running" THEN 1 ELSE @]
  /\ stopper' = IF job[l].proc = "none" \/ AfterSigterm(job[l].proc) # "exited"
                  THEN StopperNext(l)
                  ELSE [stopper EXCEPT !.pc = "mark", !.cur = l]
  /\ UNCHANGED <<queue, history, fs, is_running, active_jobs, pc, mon, throttle, profileVars, intakeVars, scheduleVars>>

\* EncodingJob.stop(), second half:
\* db.update_queue_item(id, status='failed', error_message='Manually stopped')
JobStopMark ==
  /\ stopper.pc = "mark"
  /\ queue' = update_queue_item(queue, job[stopper.cur].item,
                [status |-> "failed", error_message |-> "Manually stopped"])
  /\ stopper' = StopperNext(stopper.cur)
  /\ UNCHANGED <<history, fs, is_running, active_jobs, pc, job, mon, throttle, profileVars, intakeVars, scheduleVars>>

\* ------------------------------------------------------- callers of the pool
\* POST /control/start: refused while is_running, else process_queue is handed
\* to a worker thread.
start_encoding(l) ==
  /\ ~is_running
  /\ pc[l] = "idle"
  /\ pc' = [pc EXCEPT ![l] = "spawned"]
  /\ UNCHANGED <<queue, history, fs, is_running, active_jobs, job, mon, stopper, throttle, profileVars, intakeVars, scheduleVars>>

\* POST /control/stop: refused unless is_running, else encoder_pool.stop()
stop_encoding ==
  /\ is_running
  /\ stop
  /\ UNCHANGED <<queue, history, fs, active_jobs, pc, job, mon, throttle, profileVars, intakeVars, scheduleVars>>

\* ================================================================ scheduler
\* The readings of datetime.now() and the 'HH:MM' settings of the model;
\* weekdays as datetime.weekday() numbers them: 0 = Monday .. 6 = Sunday.
Instants == [weekday : {0, 1}, hour : {0, 6, 12, 22}, minute : {0, 30}, second : {0, 30}]
ClockSettings == [hour : {0, 6, 12, 22}, minute : {0, 30}]

\* days_of_week is a comma-separated text; a sequence holds its numbers, and
\* << >> is the empty text.
DayTexts == {<< >>, <<0>>, <<1>>, <<0, 1, 2, 3, 4, 5, 6>>}

ScheduleRows == [enabled : BOOLEAN, days_of_week : DayTexts,
                 start_time : ClockSettings, end_time : ClockSettings]

\* The row database.py inserts into an empty schedule table.
DefaultSchedule == [enabled |-> FALSE, days_of_week |-> <<0, 1, 2, 3, 4, 5, 6>>,
                    start_time |-> [hour |-> 22, minute |-> 0],
                    end_time |-> [hour |-> 6, minute |-> 0]]

\* load_schedule: 'days_of_week': row[1] or '0,1,2,3,4,5,6'
load_schedule(row) ==
  [enabled |-> row.enabled,
   days_of_week |-> IF row.days_of_week = << >> THEN <<0, 1, 2, 3, 4, 5, 6>>
                   ELSE row.days_of_week,
   start_time |-> row.start_time,
   end_time |-> row.end_time]

\* [int(d) for d in days_of_week.split(',')]; the empty text splits into [''],
\* int('') raises, and the except branch takes list(range(7)).
ScheduledDays(days_of_week) ==
  IF days_of_week = << >> THEN 0..6
  ELSE {days_of_week[k] : k \in DOMAIN days_of_week}

\* datetime.time values compare by hour, minute, second; dt_time(h, m) has
\* second 0.
TimeKey(hour, minute, second) == (hour * 60 + minute) * 60 + second

\* ScheduleManager.is_within_schedule, t being what datetime.now() returns
\* (use_windows_rest_hours off, or a host that reports no active hours).
is_within_schedule(t) ==
  IF ~is_enabled THEN FALSE
  ELSE LET scheduled_days == ScheduledDays(schedule_config.days_of_week)
           start_t == TimeKey(schedule_config.start_time.hour,
                              schedule_config.start_time.minute, 0)
           end_t == TimeKey(schedule_config.end_time.hour,
                            schedule_config.end_time.minute, 0)
           current_t == TimeKey(t.hour, t.minute, t.second)
       IN IF t.weekday \notin scheduled_days THEN FALSE
          ELSE IF start_t <= end_t
                 THEN start_t <= current_t /\ current_t <= end_t
                 ELSE current_t >= start_t \/ current_t <= end_t

\* save_schedule: the row is updated, load_schedule rebuilds schedule_config and
\* is_enabled, and the cron job is registered if the schedule is enabled (a
\* registered job is not removed when it is not).
save_schedule(config) ==
  /\ config \in ScheduleRows
  /\ schedule' = config
  /\ schedule_config' = load_schedule(config)
  /\ is_enabled' = config.enabled
  /\ schedule_check' = (schedule_check \/ config.enabled)
  /\ UNCHANGED <<engineVars, profileVars, intakeVars, manual_override, now, within_schedule>>

\* GET /schedule: get_status() evaluates is_within_schedule() at a later time.
get_status(t) ==
  /\ t \in Instants \ {now}
  /\ now' = t
  /\ within_schedule' = is_within_schedule(t)
  /\ UNCHANGED <<engineVars, profileVars, intakeVars, schedule, schedule_config, is_enabled,
                 schedule_check, manual_override>>

enable_manual_override ==
  /\ manual_override' = TRUE
  /\ UNCHANGED <<engineVars, profileVars, intakeVars, schedule, schedule_config, is_enabled,
                 schedule_check, now, within_schedule>>

disable_manual_override ==
  /\ manual_override' = FALSE
  /\ UNCHANGED <<engineVars, profileVars, intakeVars, schedule, schedule_config, is_enabled,
                 schedule_check, now, within_schedule>>

\* check_and_trigger without its first statement (if self.manual_override:
\* return).
check_and_trigger_unguarded(l, t) ==
  /\ schedule_check
  /\ t \in Instants \ {now}
  /\ now' = t
  /\ \/ /\ is_within_schedule(t) /\ ~is_running
        /\ pc[l] = "idle"
        /\ pc' = [pc EXCEPT ![l] = "spawned"]
        /\ UNCHANGED <<queue, history, fs, is_running, active_jobs, job, mon, stopper>>
     \/ /\ ~is_within_schedule(t) /\ is_running
        /\ stop
        /\ UNCHANGED <<queue, history, fs, active_jobs, pc, job, mon>>
     \/ /\ is_within_schedule(t) <=> is_running
        /\ UNCHANGED engineVars
  /\ UNCHANGED <<throttle, profileVars, intakeVars, schedule, schedule_config, is_enabled,
                 schedule_check, manual_override, within_schedule>>

\* ScheduleManager.check_and_trigger, the cron job's function, run at time t:
\* nothing under manual_override; inside the window and not running, a thread
\* is started on process_queue; outside the window and running,
\* encoder_pool.stop(); nothing otherwise.
check_and_trigger(l, t) ==
  /\ schedule_check
  /\ t \in Instants \ {now}
  /\ now' = t
  /\ \/ /\ manual_override
        /\ UNCHANGED engineVars
     \/ /\ ~manual_override
        /\ is_within_schedule(t) /\ ~is_running
        /\ pc[l] = "idle"
        /\ pc' = [pc EXCEPT ![l] = "spawned"]
        /\ UNCHANGED <<queue, history, fs, is_running, active_jobs, job, mon, stopper>>
     \/ /\ ~manual_override
        /\ ~is_within_schedule(t) /\ is_running
        /\ stop
        /\ UNCHANGED <<queue, history, fs, active_jobs, pc, job, mon>>
     \/ /\ ~manual_override
        /\ is_within_schedule(t) <=> is_running
        /\ UNCHANGED engineVars
  /\ UNCHANGED <<throttle, profileVars, intakeVars, schedule, schedule_config, is_enabled,
                 schedule_check, manual_override, within_schedule>>

\* The scheduler as initialize_scheduler leaves it on the default row: the
\* schedule is disabled and no cron job is registered.
ScheduleFixed ==
  /\ schedule = DefaultSchedule
  /\ schedule_config = load_schedule(DefaultSchedule)
  /\ is_enabled = FALSE
  /\ schedule_check = FALSE
  /\ manual_override = FALSE
  /\ now = [weekday |-> 0, hour |-> 0, minute |-> 0, second |-> 0]
  /\ within_schedule = FALSE

\* ============================================================ profiles table
\* name TEXT UNIQUE NOT NULL
ProfileNames == {"a", "b"}

\* is_default as a caller can pass it: the routes pass a bool (0, 1), an
\* imported JSON document can hold any number.
RouteDefaults == {0, 1}
ImportDefaults == {0, 1, 2}

\* kwargs.get('is_default', False) as a condition
Truthy(v) == v # 0

ProfileRows == [id : ProfileIds, name : ProfileNames, is_default : ImportDefaults]

NamesOf(tbl) == {r.name : r \in tbl}

\* WHERE is_default = 1
DefaultRows(tbl) == {r \in tbl : r.is_default = 1}

\* initialize_database: SELECT id FROM profiles WHERE is_default = 1 ORDER BY id;
\* with more than one row, every default but the lowest id is cleared.
EnforceSingleDefault(tbl) ==
  IF Cardinality(DefaultRows(tbl)) > 1
    THEN LET keep_id == CHOOSE i \in {r.id : r \in DefaultRows(tbl)} :
                          \A k \in {r.id : r \in DefaultRows(tbl)} : i <= k
         IN {IF r.is_default = 1 /\ r.id # keep_id THEN [r EXCEPT !.is_default = 0] ELSE r
               : r \in tbl}
    ELSE tbl

\* create_profile without its clearing statement.
ClearDefaultsSkipped(tbl) == tbl

\* UPDATE profiles SET is_default = 0 WHERE is_default = 1
ClearDefaults(tbl) ==
  {IF r.is_default = 1 THEN [r EXCEPT !.is_default = 0] ELSE r : r \in tbl}

\* UPDATE profiles SET is_default = 0 WHERE is_default = 1 AND id != ?
ClearOtherDefaults(tbl, profile_id) ==
  {IF r.is_default = 1 /\ r.id # profile_id THEN [r EXCEPT !.is_default = 0] ELSE r
     : r \in tbl}

\* A profiles table an earlier version may have left behind: ids 1 and 2, named
\* "a" and "b", each present or not, each default or not.
LegacyTables ==
  {tbl \in SUBSET {r \in ProfileRows : r.id <= 2 /\ r.is_default \in {0, 1}
                                       /\ r.name = (IF r.id = 1 THEN "a" ELSE "b")} :
     \A r1, r2 \in tbl : r1.id = r2.id => r1 = r2}

\* The id the next INSERT gets: one more than the largest id of the table.
NextId(tbl) ==
  IF tbl = {} THEN 1
  ELSE 1 + (CHOOSE i \in {r.id : r \in tbl} : \A r \in tbl : r.id <= i)

\* A thread with no call in progress.
NoCall == [pc |-> "idle", op |-> "none", name |-> "a", is_default |-> 0, id |-> 0, work |-> {}]

\* Database(): the table after initialize_database, no call in progress.
ProfilesInit ==
  /\ \E legacy \in LegacyTables :
       /\ profiles = EnforceSingleDefault(legacy)
       /\ next_profile_id = NextId(legacy)
  /\ db_writer = 0
  /\ pw = [w \in Writers |-> NoCall]

\* The one table the engine and intake specifications run on.
ProfilesFixed ==
  /\ profiles = {[id |-> 1, name |-> "a", is_default |-> 1]}
  /\ next_profile_id = 2
  /\ db_writer = 0
  /\ pw = [w \in Writers |-> NoCall]

\* The rows a statement of thread w works on: its own uncommitted rows once it
\* holds the write lock, the committed rows before.
Base(w) == IF db_writer = w THEN pw[w].work ELSE profiles

\* A connection that would write its uncommitted rows on an exception.
RollbackKeepsWork(w) ==
  /\ pw' = [pw EXCEPT ![w] = NoCall]
  /\ db_writer' = IF db_writer = w THEN 0 ELSE db_writer
  /\ profiles' = IF db_writer = w THEN pw[w].work ELSE profiles
  /\ UNCHANGED next_profile_id

\* conn.rollback(): the transaction's rows are dropped and the lock released.
Rollback(w) ==
  /\ pw' = [pw EXCEPT ![w] = NoCall]
  /\ db_writer' = IF db_writer = w THEN 0 ELSE db_writer
  /\ UNCHANGED <<profiles, next_profile_id>>

\* db.create_profile(**kwargs) is entered (POST /profiles, the seeder).
create_profile(w, name, is_default) ==
  /\ pw[w].pc = "idle"
  /\ pw' = [pw EXCEPT ![w] = [NoCall EXCEPT !.pc = IF Truthy(is_default) THEN "clear" ELSE "insert",
                                           !.op = "create", !.name = name,
                                           !.is_default = is_default]]
  /\ UNCHANGED <<profiles, next_profile_id, db_writer, engineVars, intakeVars, scheduleVars>>

\* import_profiles, one entry of the list: existing = self.get_profiles(); an
\* entry whose name exists is skipped, any other goes to create_profile(**p).
import_profiles(w, name, is_default) ==
  /\ pw[w].pc = "idle"
  /\ name \notin NamesOf(profiles)
  /\ pw' = [pw EXCEPT ![w] = [NoCall EXCEPT !.pc = IF Truthy(is_default) THEN "clear" ELSE "insert",
                                           !.op = "import", !.name = name,
                                           !.is_default = is_default]]
  /\ UNCHANGED <<profiles, next_profile_id, db_writer, engineVars, intakeVars, scheduleVars>>

\* PUT /profiles/{id}: 404 unless db.get_profile(id), else db.update_profile
\* is entered with every field of the request.
update_profile(w, profile_id, name, is_default) ==
  /\ pw[w].pc = "idle"
  /\ \E r \in profiles : r.id = profile_id
  /\ pw' = [pw EXCEPT ![w] = [NoCall EXCEPT !.pc = IF Truthy(is_default) THEN "clear_others" ELSE "update",
                                           !.op = "update", !.name = name,
                                           !.is_default = is_default, !.id = profile_id]]
  /\ UNCHANGED <<profiles, next_profile_id, db_writer, engineVars, intakeVars, scheduleVars>>

\* create_profile, first statement with is_default set:
\* UPDATE profiles SET is_default = 0 WHERE is_default = 1
\* The statement opens the transaction and takes the write lock.
CreateClearDefaults(w) ==
  /\ pw[w].pc = "clear"
  /\ db_writer = 0
  /\ db_writer' = w
  /\ pw' = [pw EXCEPT ![w].work = ClearDefaults(profiles), ![w].pc = "insert"]
  /\ UNCHANGED <<profiles, next_profile_id, engineVars, intakeVars, scheduleVars>>

\* create_profile: INSERT INTO profiles (...). A name that exists raises
\* sqlite3.IntegrityError and get_connection rolls back.
CreateInsert(w) ==
  /\ pw[w].pc = "insert"
  /\ db_writer \in {0, w}
  /\ next_profile_id <= MaxProfiles
  /\ IF pw[w].name \in NamesOf(Base(w))
       THEN Rollback(w)
       ELSE /\ db_writer' = w
            /\ pw' = [pw EXCEPT ![w].work = Base(w) \cup
                         {[id |-> next_profile_id, name |-> pw[w].name,
                           is_default |-> pw[w].is_default]},
                                ![w].id = next_profile_id,
                                ![w].pc = "commit"]
            /\ UNCHANGED <<profiles, next_profile_id>>
  /\ UNCHANGED <<engineVars, intakeVars, scheduleVars>>

\* update_profile, first statement with is_default set:
\* UPDATE profiles SET is_default = 0 WHERE is_default = 1 AND id != ?
UpdateClearOthers(w) ==
  /\ pw[w].pc = "clear_others"
  /\ db_writer = 0
  /\ db_writer' = w
  /\ pw' = [pw EXCEPT ![w].work = ClearOtherDefaults(profiles, pw[w].id), ![w].pc = "update"]
  /\ UNCHANGED <<profiles, next_profile_id, engineVars, intakeVars, scheduleVars>>

\* update_profile: UPDATE profiles SET name = ?, ..., is_default = ? WHERE id = ?
\* A name another row has raises sqlite3.IntegrityError; a row deleted in the
\* meantime leaves the table as it is.
UpdateSet(w) ==
  /\ pw[w].pc = "update"
  /\ db_writer \in {0, w}
  /\ IF \E r \in Base(w) : r.id # pw[w].id /\ r.name = pw[w].name
          /\ \E r2 \in Base(w) : r2.id = pw[w].id
       THEN Rollback(w)
       ELSE /\ db_writer' = w
            /\ pw' = [pw EXCEPT ![w].work =
                         {IF r.id = pw[w].id
                            THEN [r EXCEPT !.name = pw[w].name, !.is_default = pw[w].is_default]
                            ELSE r : r \in Base(w)},
                                ![w].pc = "commit"]
            /\ UNCHANGED <<profiles, next_profile_id>>
  /\ UNCHANGED <<engineVars, intakeVars, scheduleVars>>

\* get_connection: conn.commit() makes the transaction's rows the table and
\* releases the lock.
Commit(w) ==
  /\ pw[w].pc = "commit"
  /\ db_writer = w
  /\ profiles' = pw[w].work
  /\ next_profile_id' = IF pw[w].op = "update" THEN next_profile_id ELSE next_profile_id + 1
  /\ db_writer' = 0
  /\ pw' = [pw EXCEPT ![w] = NoCall]
  /\ UNCHANGED <<engineVars, intakeVars, scheduleVars>>

\* A statement that finds the write lock held for longer than the connection's
\* timeout raises sqlite3.OperationalError ('database is locked'); the call
\* ends with nothing written.
StatementLocked(w) ==
  /\ pw[w].pc \in {"clear", "clear_others", "insert", "update"}
  /\ db_writer \notin {0, w}
  /\ Rollback(w)
  /\ UNCHANGED <<engineVars, intakeVars, scheduleVars>>

\* delete_profile: DELETE FROM profiles WHERE id = ? (one statement, committed)
delete_profile(profile_id) ==
  /\ db_writer = 0
  /\ \E r \in profiles : r.id = profile_id
  /\ profiles' = {r \in profiles : r.id # profile_id}
  /\ UNCHANGED <<next_profile_id, db_writer, pw, engineVars, intakeVars, scheduleVars>>

\* The writers of the profiles table, two threads at a time.
NextProfiles ==
  \/ \E w \in Writers, name \in ProfileNames, d \in RouteDefaults : create_profile(w, name, d)
  \/ \E w \in Writers, name \in ProfileNames, d \in ImportDefaults : import_profiles(w, name, d)
  \/ \E w \in Writers, i \in ProfileIds, name \in ProfileNames, d \in RouteDefaults :
       update_profile(w, i, name, d)
  \/ \E w \in Writers : CreateClearDefaults(w)
  \/ \E w \in Writers : CreateInsert(w)
  \/ \E w \in Writers : UpdateClearOthers(w)
  \/ \E w \in Writers : UpdateSet(w)
  \/ \E w \in Writers : Commit(w)
  \/ \E w \in Writers : StatementLocked(w)
  \/ \E i \in ProfileIds : delete_profile(i)


\* ==================================================================== intake
\* The files of the one directory that is both a scan root and a watched
\* folder: a library file and the transcoder output next to it.
IntakeFiles == {LibraryPath(1), OutputPath(LibraryPath(1))}

\* The files on disk.
Present == {p \in IntakeFiles : fs[p] # "none"}

\* The codec a probe reports: a source file has another codec than the
\* profile's, a complete output has the profile's, a partial one has none.
TargetCodec == "av1"
CodecOf(content) ==
  CASE content = "src" -> "h264"
    [] content = "enc" -> TargetCodec
    [] OTHER -> "unknown"

\* analyze_file: the probe's codec; the library's files are all 1920x1080, and
\* a file the probe cannot read has resolution 'unknown'.
analyze_file(content) ==
  [codec |-> CodecOf(content),
   resolution |-> IF CodecOf(content) = "unknown" THEN "unknown" ELSE "1920x1080"]

\* _needs_encoding with the resolution test left out.
NeedsEncodingCodecOnly(current_specs, target_specs) ==
  \/ current_specs.codec = "unknown"
  \/ target_specs.codec # "" /\ current_specs.codec # target_specs.codec

\* MediaScanner._needs_encoding; "" stands for a value that is None or ''.
needs_encoding(current_specs, target_specs) ==
  IF current_specs.codec = "unknown" THEN TRUE
  ELSE IF target_specs.codec # "" /\ current_specs.codec # target_specs.codec THEN TRUE
  ELSE IF /\ target_specs.resolution # ""
          /\ target_specs.resolution \notin {"", "preserve"}
          /\ current_specs.resolution # "unknown"
          /\ current_specs.resolution # target_specs.resolution
    THEN TRUE
  ELSE FALSE

\* MediaScanner._estimate_savings; int(file_size * 0.50) is file_size * 50
\* divided by 100 and truncated.
estimate_savings(file_size, current_codec, target_codec) ==
  IF target_codec = "av1" /\ current_codec \notin {"av1"}
    THEN (file_size * 50) \div 100
  ELSE IF target_codec = "h265" /\ current_codec \in {"h264", "mpeg4", "mpeg2", "xvid", "wmv"}
    THEN (file_size * 40) \div 100
  ELSE IF target_codec = "h264" /\ current_codec \in {"mpeg4", "mpeg2", "wmv"}
    THEN (file_size * 30) \div 100
  ELSE 0

\* sorted(): the order of str paths ('.' sorts before '_')
PathBefore(a, b) ==
  \/ a.stem < b.stem
  \/ a.stem = b.stem /\ a.opt < b.opt
  \/ a.stem = b.stem /\ a.opt = b.opt /\ a.ext = "mkv" /\ b.ext = "mp4"

FirstPath(S) == CHOOSE a \in S : \A b \in S \ {a} : PathBefore(a, b)

\* scan_root without its test for an existing row of the path.
QueuedNever(q, path) == FALSE

\* any(item['file_path'] == file_path for item in existing)
Queued(q, path) == \E k \in DOMAIN q : q[k].file_path = path

\* discover_video_files: every file with a video extension, sorted
discover_video_files == Present

\* FolderWatcher._scan_directory: the files whose stem has no '_optimized'; an
\* enumeration that raises part-way returns what it had collected.
ScanDirectoryResults == SUBSET {p \in Present : p.opt = 0}

\* def _estimate_savings(self, file_size, current_codec, target_codec)
EstimateSavingsParams == {"file_size", "current_codec", "target_codec"}

\* A signature that takes any keyword.
EstimateSavingsAcceptsAny(args) == TRUE

\* A call binds its arguments, or raises TypeError for a keyword the
\* signature does not have.
EstimateSavingsAccepts(args) == args \subseteq EstimateSavingsParams

\* The arguments each caller passes.
ScanRootArgs == {"file_size", "current_codec", "target_codec"}
WatcherArgs == {"file_size", "current_codec", "target_codec", "current_specs"}
SyncArgs == {"file_size", "current_codec", "target_codec", "current_specs"}
WebhookArgs == {"file_size", "current_codec", "target_codec", "current_specs"}

PermStatus(perm_ok) == IF perm_ok THEN "pending" ELSE "permission_error"

Idle == [pc |-> "idle", files |-> {}, cur |-> LibraryPath(1)]

\* No scan in progress, no watcher thread.
IntakeInit ==
  /\ scan = [s \in Scanners |-> Idle]
  /\ watcher = "off"
  /\ known_files = << >>
  /\ new_files = {}
  /\ initial_files = {}

\* One enabled scan root (the directory of IntakeFiles), no scan_all_roots
\* under way, nothing assessed.
NoSweep == [pc |-> "idle", todo |-> << >>, files |-> {}, total |-> 0, scanned |-> {}]
NotAssessed ==
  [file_size |-> 0, current_specs |-> [codec |-> "unknown", resolution |-> "unknown"],
   target_specs |-> [codec |-> "", resolution |-> ""],
   done |-> FALSE, needs_encoding |-> FALSE, estimated_savings_bytes |-> 0]
CatalogFixed ==
  /\ scan_roots = {[id |-> 1, enabled |-> TRUE]}
  /\ sweep = NoSweep
  /\ assessed = NotAssessed

\* A file is copied into the directory: a new source file, or an output an
\* earlier transcoder left unfinished.
FileAppears(p) ==
  /\ p \in IntakeFiles
  /\ fs[p] = "none"
  /\ fs' = [fs EXCEPT ![p] = IF p.opt = 0 THEN "src" ELSE "part"]
  /\ UNCHANGED <<queue, history, is_running, active_jobs, pc, job, mon, stopper, throttle,
                  profileVars, intakeVars, scheduleVars>>

\* A file is removed from the directory.
FileRemoved(p) ==
  /\ p \in IntakeFiles
  /\ fs[p] # "none"
  /\ fs' = [fs EXCEPT ![p] = "none"]
  /\ UNCHANGED <<queue, history, is_running, active_jobs, pc, job, mon, stopper, throttle,
                  profileVars, intakeVars, scheduleVars>>

\* scan_root up to the loop: the root and its profile are read, the directory
\* is enumerated.
ScanRootBegin(s) ==
  /\ scan[s].pc = "idle"
  /\ scan' = [scan EXCEPT ![s] = [pc |-> "next", files |-> discover_video_files,
                                  cur |-> LibraryPath(1)]]
  /\ UNCHANGED <<engineVars, profileVars, watcher, known_files, new_files, initial_files, scan_roots, sweep, assessed, scheduleVars>>

\* scan_root, one file up to the insert: existing = db.get_queue_items(); a
\* queued path is skipped; the file is probed; a file at the target is skipped.
ScanRootCheck(s) ==
  /\ scan[s].pc = "next"
  /\ IF scan[s].files = {}
       THEN scan' = [scan EXCEPT ![s] = Idle]
       ELSE LET file_path == FirstPath(scan[s].files)
            IN IF Queued(queue, file_path)
                    \/ ~needs_encoding(analyze_file(fs[file_path]), [codec |-> TargetCodec, resolution |-> ""])
                 THEN scan' = [scan EXCEPT ![s].files = @ \ {file_path}]
                 ELSE scan' = [scan EXCEPT ![s].files = @ \ {file_path},
                                           ![s].cur = file_path, ![s].pc = "insert"]
  /\ UNCHANGED <<engineVars, profileVars, watcher, known_files, new_files, initial_files, scan_roots, sweep, assessed, scheduleVars>>

\* scan_root, the insert: file_size = Path(file_path).stat().st_size raises for
\* a file that is gone and ends the scan; otherwise _estimate_savings and
\* db.add_to_queue(...).
ScanRootInsert(s, perm_ok) ==
  /\ scan[s].pc = "insert"
  /\ Len(queue) < MaxQueue
  /\ IF fs[scan[s].cur] = "none" \/ ~EstimateSavingsAccepts(ScanRootArgs)
       THEN /\ scan' = [scan EXCEPT ![s] = Idle]
            /\ UNCHANGED queue
       ELSE /\ queue' = Append(queue, NewRow(scan[s].cur, 1, PermStatus(perm_ok), 50))
            /\ scan' = [scan EXCEPT ![s].pc = "next"]
  /\ UNCHANGED <<history, fs, is_running, active_jobs, pc, job, mon, stopper, throttle,
                 profileVars, watcher, known_files, new_files, initial_files, scan_roots, sweep, assessed, scheduleVars>>

\* _queue_new_files: for file_path in sorted(new_files): a queued path is
\* skipped, a file at the target is skipped, and whatever the try block raises
\* is logged and the loop goes on with the next file.
RECURSIVE QueueNewFiles(_, _, _, _)
QueueNewFiles(q, files, queued_paths, perm_ok) ==
  IF files = {} THEN q
  ELSE LET file_path == FirstPath(files)
           rest == files \ {file_path}
       IN IF file_path \in queued_paths
               \/ ~needs_encoding(analyze_file(fs[file_path]), [codec |-> TargetCodec, resolution |-> ""])
               \/ ~EstimateSavingsAccepts(WatcherArgs)
            THEN QueueNewFiles(q, rest, queued_paths, perm_ok)
            ELSE QueueNewFiles(Append(q, NewRow(file_path, 0, PermStatus(perm_ok), 50)),
                               rest, queued_paths, perm_ok)

\* The paths of the queue rows: {item['file_path'] for item in db.get_queue_items()}
QueuedPaths(q) == {q[k].file_path : k \in DOMAIN q}

\* known = self._known_files.get(watch['id'], set())
known == IF 1 \in DOMAIN known_files THEN known_files[1] ELSE {}

\* The body _check_watches and force_check share for one watch: the directory
\* is enumerated, new_files = current_files - known, the new files are queued
\* and the known set is replaced by the enumeration.
WatchPass(current_files, perm_ok) ==
  /\ current_files \in ScanDirectoryResults
  /\ Len(QueueNewFiles(queue, current_files \ known, QueuedPaths(queue), perm_ok))
       <= MaxQueue
  /\ queue' = QueueNewFiles(queue, current_files \ known, QueuedPaths(queue), perm_ok)
  /\ new_files' = current_files \ known
  /\ known_files' = (1 :> current_files)

\* FolderWatcher._poll_loop begins: _initial_scan stores the enumeration as the
\* known files and queues nothing.
initial_scan(files) ==
  /\ watcher = "off"
  /\ files \in ScanDirectoryResults
  /\ watcher' = "polling"
  /\ known_files' = (1 :> files)
  /\ initial_files' = Present
  /\ UNCHANGED <<engineVars, profileVars, scan, new_files, scan_roots, sweep, assessed, scheduleVars>>

\* One pass of the poll loop.
check_watches(current_files, perm_ok) ==
  /\ watcher = "polling"
  /\ WatchPass(current_files, perm_ok)
  /\ UNCHANGED <<history, fs, is_running, active_jobs, pc, job, mon, stopper, throttle,
                 profileVars, scan, watcher, initial_files, scan_roots, sweep, assessed, scheduleVars>>

\* POST /watches/check: force_check runs the pass in the caller's thread,
\* whether or not the poll loop has started.
force_check(current_files, perm_ok) ==
  /\ WatchPass(current_files, perm_ok)
  /\ UNCHANGED <<history, fs, is_running, active_jobs, pc, job, mon, stopper, throttle,
                 profileVars, scan, watcher, initial_files, scan_roots, sweep, assessed, scheduleVars>>

\* POST /webhooks/{app_type}: a path in the queue is answered 'already in
\* queue'; for any other the arguments of add_to_queue are evaluated, and the
\* row is inserted if that does not raise.
receive_webhook(file_path, perm_ok) ==
  /\ file_path \in IntakeFiles
  /\ IF file_path \in QueuedPaths(queue) \/ ~EstimateSavingsAccepts(WebhookArgs)
       THEN queue' = queue
       ELSE /\ Len(queue) < MaxQueue
            /\ queue' = Append(queue, NewRow(file_path, 0, PermStatus(perm_ok), 50))
  /\ UNCHANGED <<history, fs, is_running, active_jobs, pc, job, mon, stopper, throttle,
                  profileVars, intakeVars, scheduleVars>>

\* _sync_connection_task, the loop over the fetched items: a path in
\* existing_paths or a file at the target is skipped; the first exception ends
\* the task.
RECURSIVE SyncItems(_, _, _, _)
SyncItems(q, items, existing_paths, perm_ok) ==
  IF items = {} THEN q
  ELSE LET path == FirstPath(items)
           rest == items \ {path}
       IN IF path \in existing_paths \/ ~needs_encoding(analyze_file(fs[path]), [codec |-> TargetCodec, resolution |-> ""])
            THEN SyncItems(q, rest, existing_paths, perm_ok)
            ELSE IF ~EstimateSavingsAccepts(SyncArgs)
              THEN q
              ELSE SyncItems(Append(q, NewRow(path, 0, PermStatus(perm_ok), 50)),
                             rest, existing_paths, perm_ok)

sync_connection_task(items, perm_ok) ==
  /\ items \subseteq Present
  /\ Len(SyncItems(queue, items, QueuedPaths(queue), perm_ok)) <= MaxQueue
  /\ queue' = SyncItems(queue, items, QueuedPaths(queue), perm_ok)
  /\ UNCHANGED <<history, fs, is_running, active_jobs, pc, job, mon, stopper, throttle,
                  profileVars, intakeVars, scheduleVars>>

\* The intake paths with two scans at a time.
NextIntake ==
  \/ \E p \in IntakeFiles : FileAppears(p)
  \/ \E p \in IntakeFiles : FileRemoved(p)
  \/ \E s \in Scanners : ScanRootBegin(s)
  \/ \E s \in Scanners : ScanRootCheck(s)
  \/ \E s \in Scanners, perm_ok \in BOOLEAN : ScanRootInsert(s, perm_ok)
  \/ \E files \in SUBSET IntakeFiles : initial_scan(files)
  \/ \E files \in SUBSET IntakeFiles, perm_ok \in BOOLEAN : check_watches(files, perm_ok)
  \/ \E files \in SUBSET IntakeFiles, perm_ok \in BOOLEAN : force_check(files, perm_ok)
  \/ \E p \in IntakeFiles, perm_ok \in BOOLEAN : receive_webhook(p, perm_ok)
  \/ \E items \in SUBSET IntakeFiles, perm_ok \in BOOLEAN : sync_connection_task(items, perm_ok)


\* -------------------------------------------------------------- specification
\* The engine with one process_queue thread: the callers, the pool loop, the
\* job with its progress and monitor threads, finalisation and stop.
Next ==
  \/ start_encoding(1)
  \/ stop_encoding
  \/ ProcessQueueBegin(1)
  \/ PoolLoopTop(1)
  \/ PoolSelect(1, << >>)
  \/ PoolRemoveJob(1)
  \/ JobStart(1)
  \/ \E ok \in BOOLEAN : JobSpawn(1, ok)
  \/ \E p \in ProgressValues : JobProgress(1, p)
  \/ \E rc \in {0, 1}, output \in {"enc", "none"} : TranscoderExit(1, rc, output)
  \/ JobWait(1)
  \/ FinalizeCheck(1)
  \/ \E ok \in BOOLEAN : FinalizeUnlink(1, ok)
  \/ \E ok \in BOOLEAN : FinalizeRename(1, ok)
  \/ \E ok \in BOOLEAN : FinalizeMark(1, ok)
  \/ \E ok \in BOOLEAN : FinalizeHistory(1, ok)
  \/ MonitorCheck(1)
  \/ \E cpu \in {50, 95} : MonitorAct(1, cpu, 50, FALSE, FALSE, << >>, TRUE)
  \/ JobStopTerminate(1)
  \/ JobStopMark

Init == EngineInit /\ ProfilesFixed /\ IntakeInit /\ CatalogFixed /\ ScheduleFixed

Spec == Init /\ [][Next]_vars

\* The same engine with its threads scheduled fairly: the pool thread, the
\* monitor thread and the thread running stop() each take their next step when
\* it stays possible, and a transcoder that is left running ends.
SpecFair ==
  /\ Init
  /\ [][Next]_vars
  /\ WF_vars(\/ ProcessQueueBegin(1) \/ PoolLoopTop(1) \/ PoolSelect(1, << >>)
             \/ PoolRemoveJob(1) \/ JobStart(1) \/ JobSpawn(1, TRUE) \/ JobWait(1)
             \/ FinalizeCheck(1) \/ FinalizeUnlink(1, TRUE) \/ FinalizeRename(1, TRUE)
             \/ FinalizeMark(1, TRUE) \/ FinalizeHistory(1, TRUE))
  /\ WF_vars(MonitorCheck(1) \/ \E cpu \in {50, 95} : MonitorAct(1, cpu, 50, FALSE, FALSE, << >>, TRUE))
  /\ WF_vars(JobStopTerminate(1) \/ JobStopMark)
  /\ WF_vars(\E rc \in {0, 1}, output \in {"enc", "none"} : TranscoderExit(1, rc, output))

\* The engine with every thread the callers can start on process_queue: the
\* start endpoint (like the scheduler's tick, which acts on the pool as the
\* start and stop endpoints do and is part of SpecTick) tests is_running before
\* the new thread has set it, and a loop that outlives stop() goes on when the
\* next start sets is_running again.
NextRace ==
  \/ \E l \in Loops : start_encoding(l)
  \/ stop_encoding
  \/ \E l \in Loops : ProcessQueueBegin(l)
  \/ \E l \in Loops : PoolLoopTop(l)
  \/ \E l \in Loops : PoolSelect(l, << >>)
  \/ \E l \in Loops : PoolRemoveJob(l)
  \/ \E l \in Loops : JobStart(l)
  \/ \E l \in Loops, ok \in BOOLEAN : JobSpawn(l, ok)
  \/ \E l \in Loops, rc \in {0, 1}, output \in {"enc", "none"} : TranscoderExit(l, rc, output)
  \/ \E l \in Loops : JobWait(l)
  \/ \E l \in Loops : FinalizeCheck(l)
  \/ \E l \in Loops, ok \in BOOLEAN : FinalizeUnlink(l, ok)
  \/ \E l \in Loops, ok \in BOOLEAN : FinalizeRename(l, ok)
  \/ \E l \in Loops, ok \in BOOLEAN : FinalizeMark(l, ok)
  \/ \E l \in Loops, ok \in BOOLEAN : FinalizeHistory(l, ok)
  \/ \E l \in Loops : JobStopTerminate(l)
  \/ JobStopMark

SpecRace == Init /\ [][NextRace]_vars

\* Two process_queue threads as in SpecRace, with throttling: each job has its
\* monitor thread; one item is pending and nobody stops the pool.
InitRacePaused ==
  /\ Init
  /\ queue[1].status = "pending"
  /\ \A i \in Items \ {1} : queue[i].status = "permission_error"

NextRacePaused ==
  \/ \E l \in Loops : start_encoding(l)
  \/ \E l \in Loops : ProcessQueueBegin(l)
  \/ \E l \in Loops : PoolLoopTop(l)
  \/ \E l \in Loops : PoolSelect(l, << >>)
  \/ \E l \in Loops : PoolRemoveJob(l)
  \/ \E l \in Loops : JobStart(l)
  \/ \E l \in Loops, ok \in BOOLEAN : JobSpawn(l, ok)
  \/ \E l \in Loops, rc \in {0, 1}, output \in {"enc", "none"} : TranscoderExit(l, rc, output)
  \/ \E l \in Loops : JobWait(l)
  \/ \E l \in Loops : FinalizeCheck(l)
  \/ \E l \in Loops, ok \in BOOLEAN : FinalizeUnlink(l, ok)
  \/ \E l \in Loops, ok \in BOOLEAN : FinalizeRename(l, ok)
  \/ \E l \in Loops, ok \in BOOLEAN : FinalizeMark(l, ok)
  \/ \E l \in Loops, ok \in BOOLEAN : FinalizeHistory(l, ok)
  \/ \E l \in Loops : MonitorCheck(l)
  \/ \E l \in Loops, cpu \in {50, 95}, elapsed \in BOOLEAN :
       MonitorAct(l, cpu, 50, FALSE, FALSE, << >>, elapsed)

SpecRacePaused == InitRacePaused /\ [][NextRacePaused]_vars

\* The engine at rest: nothing queued, no thread, no job.
EngineIdle ==
  /\ history = << >>
  /\ is_running = FALSE
  /\ active_jobs = {}
  /\ pc = [l \in Loops |-> "idle"]
  /\ job = [l \in Loops |-> NoJob]
  /\ mon = [l \in Loops |-> "off"]
  /\ stopper = [pc |-> "idle", todo |-> {}, cur |-> 0]
  /\ throttle = NoCheck

\* DELETE FROM scan_roots WHERE id = ?  The connection never turns on
\* PRAGMA foreign_keys and the queue's foreign key has no ON DELETE clause:
\* the statement touches the scan_roots table alone.
delete_scan_root(root_id) ==
  /\ \E r \in scan_roots : r.id = root_id
  /\ scan_roots' = {r \in scan_roots : r.id # root_id}
  /\ UNCHANGED <<engineVars, profileVars, scan, watcher, known_files, new_files, initial_files,
                 sweep, assessed, scheduleVars>>

\* scan_all_roots: scan_roots = db.get_scan_roots(enabled_only=True); with no
\* enabled root 0 is returned, else the sum over the roots is begun.
scan_all_roots ==
  /\ sweep.pc = "idle"
  /\ LET enabled == {r.id : r \in {x \in scan_roots : x.enabled}}
         ordered == [k \in 1..Cardinality(enabled) |->
                       CHOOSE id \in enabled : Cardinality({o \in enabled : o < id}) = k - 1]
     IN sweep' = [pc |-> IF enabled = {} THEN "returned" ELSE "discover",
                  todo |-> ordered, files |-> {}, total |-> 0, scanned |-> {}]
  /\ UNCHANGED <<engineVars, profileVars, scan, watcher, known_files, new_files, initial_files,
                 scan_roots, assessed, scheduleVars>>

\* sum(...): the generator's next scan_root(root['id']), up to its loop. The
\* root is read again and a root that is gone or disabled returns 0; else the
\* root's directory is enumerated (root 1 holds IntakeFiles, root 2 the second
\* library file).
ScanAllRootsDiscover ==
  /\ sweep.pc = "discover"
  /\ LET root_id == Head(sweep.todo)
         directory == IF root_id = 1 THEN IntakeFiles ELSE {LibraryPath(2)}
     IN IF \E r \in scan_roots : r.id = root_id /\ r.enabled
          THEN sweep' = [sweep EXCEPT !.pc = "process",
                                      !.files = {p \in directory : fs[p] # "none"}]
          ELSE sweep' = [sweep EXCEPT !.todo = Tail(@), !.scanned = @ \cup {root_id},
                                      !.pc = IF Tail(sweep.todo) = << >> THEN "returned"
                                             ELSE "discover"]
  /\ UNCHANGED <<engineVars, profileVars, scan, watcher, known_files, new_files, initial_files,
                 scan_roots, assessed, scheduleVars>>

\* scan_root's loop, one file: a queued path is skipped, the file is probed, a
\* file at the target is skipped; Path(file_path).stat() raises for a file that
\* is gone, and neither scan_root nor scan_all_roots catches it: the sum ends
\* there with the remaining roots unscanned. After the last file scan_root
\* returns added_count and sum goes on to the next root or returns.
ScanAllRootsProcess(perm_ok) ==
  /\ sweep.pc = "process"
  /\ IF sweep.files = {}
       THEN /\ sweep' = [sweep EXCEPT !.todo = Tail(@), !.scanned = @ \cup {Head(sweep.todo)},
                                      !.pc = IF Tail(sweep.todo) = << >> THEN "returned"
                                             ELSE "discover"]
            /\ UNCHANGED queue
       ELSE LET file_path == FirstPath(sweep.files)
            IN IF Queued(queue, file_path)
                    \/ ~needs_encoding(analyze_file(fs[file_path]),
                                       [codec |-> TargetCodec, resolution |-> ""])
                 THEN /\ sweep' = [sweep EXCEPT !.files = @ \ {file_path}]
                      /\ UNCHANGED queue
                 ELSE IF fs[file_path] = "none" \/ ~EstimateSavingsAccepts(ScanRootArgs)
                   THEN /\ sweep' = [sweep EXCEPT !.pc = "raised"]
                        /\ UNCHANGED queue
                   ELSE /\ queue' = Append(queue, NewRow(file_path, Head(sweep.todo),
                                                         PermStatus(perm_ok), 50))
                        /\ sweep' = [sweep EXCEPT !.files = @ \ {file_path},
                                                  !.total = @ + 1]
  /\ UNCHANGED <<history, fs, is_running, active_jobs, pc, job, mon, stopper, throttle, profileVars,
                 scan, watcher, known_files, new_files, initial_files, scan_roots, assessed,
                 scheduleVars>>

\* Two scan roots, each enabled or not, over directories holding any of their
\* files; scan_all_roots runs while files go and roots are deleted.
InitRoots ==
  /\ \E on_disk \in SUBSET (IntakeFiles \cup {LibraryPath(2)}) :
       fs = [p \in Paths |-> IF p \in on_disk THEN (IF p.opt = 0 THEN "src" ELSE "part")
                                              ELSE "none"]
  /\ queue = << >>
  /\ EngineIdle
  /\ ProfilesFixed
  /\ IntakeInit
  /\ \E enabled \in [{1, 2} -> BOOLEAN] :
       scan_roots = {[id |-> i, enabled |-> enabled[i]] : i \in {1, 2}}
  /\ sweep = NoSweep
  /\ assessed = NotAssessed
  /\ ScheduleFixed

NextRoots ==
  \/ scan_all_roots
  \/ ScanAllRootsDiscover
  \/ \E perm_ok \in BOOLEAN : ScanAllRootsProcess(perm_ok)
  \/ \E p \in IntakeFiles : FileRemoved(p)
  \/ \E root_id \in {1, 2} : delete_scan_root(root_id)

SpecRoots == InitRoots /\ [][NextRoots]_vars

\* scan_root's decision for one probed file: _needs_encoding(current_specs,
\* target_specs) and _estimate_savings(file_size, current codec, target codec).
assess ==
  /\ ~assessed.done
  /\ assessed' = [assessed EXCEPT
        !.done = TRUE,
        !.needs_encoding = needs_encoding(assessed.current_specs, assessed.target_specs),
        !.estimated_savings_bytes =
           estimate_savings(assessed.file_size, assessed.current_specs.codec,
                            assessed.target_specs.codec)]
  /\ UNCHANGED <<engineVars, profileVars, scan, watcher, known_files, new_files, initial_files,
                 scan_roots, sweep, scheduleVars>>

\* Any probe result against any profile: the codecs of the savings table and
\* vp9, a known or unknown resolution, a profile with or without a target
\* resolution, files of a few sizes.
InitAssess ==
  /\ fs = [p \in Paths |-> "none"]
  /\ queue = << >>
  /\ EngineIdle
  /\ ProfilesFixed
  /\ IntakeInit
  /\ scan_roots = {[id |-> 1, enabled |-> TRUE]}
  /\ sweep = NoSweep
  /\ \E file_size \in {0, 1, 3, 10, 999},
        current_codec \in {"av1", "h265", "h264", "mpeg2", "mpeg4", "xvid", "wmv", "vp9", "unknown"},
        current_resolution \in {"unknown", "1920x1080", "1280x720"},
        target_codec \in {"", "av1", "h265", "h264", "vp9"},
        target_resolution \in {"", "preserve", "1920x1080", "1280x720"} :
       assessed = [NotAssessed EXCEPT
         !.file_size = file_size,
         !.current_specs = [codec |-> current_codec, resolution |-> current_resolution],
         !.target_specs = [codec |-> target_codec, resolution |-> target_resolution]]
  /\ ScheduleFixed

SpecAssess == InitAssess /\ [][assess]_vars

\* GET /resources/thresholds for every reading of a machine around the default
\* thresholds: CPU and memory at, one under and one over theirs, GPU monitoring
\* present or not, pynvml answering or raising, no, one or two devices.
SpecThresholds ==
  /\ Init
  /\ [][\E cpu \in {89, 90, 91}, memory \in {84, 85, 86}, gpu_available \in BOOLEAN,
           nvml_ok \in BOOLEAN,
           gpus \in {<< >>, <<89>>, <<90>>, <<91>>, <<89, 91>>, <<91, 89>>, <<90, 89>>} :
           check_resource_thresholds(cpu, memory, gpu_available, nvml_ok, gpus)]_vars

\* One process_queue thread working through a queue whose rows have any
\* priorities and whose profiles hold any resolution text, in a library where
\* another file may lie at an item's final path. A row may hold an upscale
\* plan, as the queue table stores for an add_to_queue(upscale_plan=...).
InitJobs ==
  /\ \E other \in SUBSET ({FinalPath(LibraryPath(i)) : i \in Items} \ {LibraryPath(i) : i \in Items}) :
       fs = [p \in Paths |-> IF (p.opt = 0 /\ p = LibraryPath(p.stem)) \/ p \in other
                               THEN "src" ELSE "none"]
  /\ \E st \in [Items -> {"pending", "permission_error"}], pr \in [Items -> {10, 50}],
        plan \in [Items -> BOOLEAN] :
       queue = [i \in Items |->
                  [NewRow(LibraryPath(i), 1, st[i], pr[i]) EXCEPT !.upscale_plan = plan[i]]]
  /\ EngineIdle
  /\ ProfilesFixed
  /\ IntakeInit
  /\ CatalogFixed
  /\ ScheduleFixed

NextJobs ==
  \/ start_encoding(1)
  \/ stop_encoding
  \/ JobStopTerminate(1)
  \/ JobStopMark
  \/ ProcessQueueBegin(1)
  \/ PoolLoopTop(1)
  \/ \E resolution \in Resolutions : PoolSelect(1, resolution)
  \/ PoolRemoveJob(1)
  \/ JobStart(1)
  \/ \E ok \in BOOLEAN : JobSpawn(1, ok)
  \/ \E rc \in {0, 1}, output \in {"enc", "empty", "none"} : TranscoderExit(1, rc, output)
  \/ JobWait(1)
  \/ FinalizeCheck(1)
  \/ \E ok \in BOOLEAN : FinalizeUnlink(1, ok)
  \/ \E ok \in BOOLEAN : FinalizeRename(1, ok)
  \/ \E ok \in BOOLEAN : FinalizeMark(1, ok)
  \/ \E ok \in BOOLEAN : FinalizeHistory(1, ok)

SpecJobs == InitJobs /\ [][NextJobs]_vars

\* One pool thread over pending items of any priority whose profiles are two
\* rows of the profiles table; DELETE /profiles/{id} removes either at any
\* moment (the queue rows keep the id, as nothing enforces the foreign key).
InitOrphans ==
  /\ fs = [p \in Paths |-> IF p.opt = 0 /\ p = LibraryPath(p.stem) THEN "src" ELSE "none"]
  /\ \E pr \in [Items -> {10, 50}], pid \in [Items -> {1, 2}] :
       queue = [i \in Items |->
                  [NewRow(LibraryPath(i), 1, "pending", pr[i]) EXCEPT !.profile_id = pid[i]]]
  /\ EngineIdle
  /\ profiles = {[id |-> 1, name |-> "a", is_default |-> 1], [id |-> 2, name |-> "b", is_default |-> 0]}
  /\ next_profile_id = 3
  /\ db_writer = 0
  /\ pw = [w \in Writers |-> NoCall]
  /\ IntakeInit
  /\ CatalogFixed
  /\ ScheduleFixed

NextOrphans ==
  \/ start_encoding(1)
  \/ ProcessQueueBegin(1)
  \/ PoolLoopTop(1)
  \/ PoolSelect(1, << >>)
  \/ PoolRemoveJob(1)
  \/ JobStart(1)
  \/ \E ok \in BOOLEAN : JobSpawn(1, ok)
  \/ \E rc \in {0, 1}, output \in {"enc", "none"} : TranscoderExit(1, rc, output)
  \/ JobWait(1)
  \/ FinalizeCheck(1)
  \/ \E ok \in BOOLEAN : FinalizeUnlink(1, ok)
  \/ \E ok \in BOOLEAN : FinalizeRename(1, ok)
  \/ \E ok \in BOOLEAN : FinalizeMark(1, ok)
  \/ \E ok \in BOOLEAN : FinalizeHistory(1, ok)
  \/ \E i \in {1, 2} : delete_profile(i)

\* The pool thread keeps running while it has a step to take, and a started
\* transcoder exits; nobody has to delete a profile.
SpecOrphans ==
  /\ InitOrphans
  /\ [][NextOrphans]_vars
  /\ WF_vars(\/ ProcessQueueBegin(1) \/ PoolLoopTop(1) \/ PoolSelect(1, << >>)
             \/ PoolRemoveJob(1) \/ JobStart(1) \/ JobSpawn(1, TRUE) \/ JobWait(1)
             \/ FinalizeCheck(1) \/ FinalizeUnlink(1, TRUE) \/ FinalizeRename(1, TRUE)
             \/ FinalizeMark(1, TRUE) \/ FinalizeHistory(1, TRUE))
  /\ WF_vars(\E rc \in {0, 1}, output \in {"enc", "none"} : TranscoderExit(1, rc, output))

\* The profiles table and its writers.
InitProfiles ==
  /\ fs = [p \in Paths |-> "none"]
  /\ queue = << >>
  /\ EngineIdle
  /\ ProfilesInit
  /\ IntakeInit
  /\ CatalogFixed
  /\ ScheduleFixed

SpecProfiles == InitProfiles /\ [][NextProfiles]_vars

\* The intake paths on an empty queue, with any of the directory's files on
\* disk.
InitIntake ==
  /\ \E on_disk \in SUBSET IntakeFiles :
       fs = [p \in Paths |-> IF p \in on_disk THEN (IF p.opt = 0 THEN "src" ELSE "part")
                                              ELSE "none"]
  /\ queue = << >>
  /\ EngineIdle
  /\ ProfilesFixed
  /\ IntakeInit
  /\ CatalogFixed
  /\ ScheduleFixed

SpecIntake == InitIntake /\ [][NextIntake]_vars

\* scan_root run again and again by one caller over a tree that does not
\* change (each file absent, a source, at the target codec, or unreadable to
\* the probe), with no other writer of the queue.
InitRescan ==
  /\ \E tree \in [IntakeFiles -> Contents] :
       fs = [p \in Paths |-> IF p \in IntakeFiles THEN tree[p] ELSE "none"]
  /\ queue = << >>
  /\ EngineIdle
  /\ ProfilesFixed
  /\ IntakeInit
  /\ CatalogFixed
  /\ ScheduleFixed

NextRescan ==
  \/ ScanRootBegin(1)
  \/ ScanRootCheck(1)
  \/ \E perm_ok \in BOOLEAN : ScanRootInsert(1, perm_ok)

SpecRescan == InitRescan /\ [][NextRescan]_vars

\* The schedule: any row of the schedule table, loaded by initialize_scheduler,
\* then saved and queried at the clock's readings.
InitSchedule ==
  /\ fs = [p \in Paths |-> "none"]
  /\ queue = << >>
  /\ EngineIdle
  /\ ProfilesFixed
  /\ IntakeInit
  /\ CatalogFixed
  /\ \E row \in ScheduleRows :
       /\ schedule = row
       /\ schedule_config = load_schedule(row)
       /\ is_enabled = row.enabled
       /\ schedule_check = row.enabled
  /\ manual_override = FALSE
  /\ now = [weekday |-> 0, hour |-> 0, minute |-> 0, second |-> 0]
  /\ within_schedule = FALSE

NextSchedule ==
  \/ \E config \in ScheduleRows : save_schedule(config)
  \/ \E t \in Instants : get_status(t)

SpecSchedule == InitSchedule /\ [][NextSchedule]_vars

\* The cron job's ticks: Monday 00:00:00 lies inside the window 22:00 -> 06:00,
\* Monday 06:00:30 and Monday 12:00:00 outside.
TickInstants ==
  {[weekday |-> 0, hour |-> h, minute |-> 0, second |-> sec] :
     h \in {0, 6, 12}, sec \in {0, 30}} \ 
  {[weekday |-> 0, hour |-> 0, minute |-> 0, second |-> 30],
   [weekday |-> 0, hour |-> 6, minute |-> 0, second |-> 0],
   [weekday |-> 0, hour |-> 12, minute |-> 0, second |-> 30]}

\* The engine under an enabled schedule (all days, 22:00 -> 06:00) whose cron
\* job initialize_scheduler registered; the last tick ran on Monday 12:00.
InitTick ==
  /\ EngineInit
  /\ \A i \in Items : queue[i].status = "pending"
  /\ ProfilesFixed
  /\ IntakeInit
  /\ CatalogFixed
  /\ schedule = [DefaultSchedule EXCEPT !.enabled = TRUE]
  /\ schedule_config = load_schedule(schedule)
  /\ is_enabled = TRUE
  /\ schedule_check = TRUE
  /\ manual_override = FALSE
  /\ now = [weekday |-> 0, hour |-> 12, minute |-> 0, second |-> 0]
  /\ within_schedule = FALSE

\* The engine with one process_queue thread, started and stopped by the user
\* and by the scheduler's tick.
NextTick ==
  \/ start_encoding(1)
  \/ stop_encoding
  \/ \E t \in TickInstants : check_and_trigger(1, t)
  \/ enable_manual_override
  \/ disable_manual_override
  \/ ProcessQueueBegin(1)
  \/ PoolLoopTop(1)
  \/ PoolSelect(1, << >>)
  \/ PoolRemoveJob(1)
  \/ JobStart(1)
  \/ \E ok \in BOOLEAN : JobSpawn(1, ok)
  \/ \E rc \in {0, 1}, output \in {"enc", "none"} : TranscoderExit(1, rc, output)
  \/ JobWait(1)
  \/ FinalizeCheck(1)
  \/ \E ok \in BOOLEAN : FinalizeUnlink(1, ok)
  \/ \E ok \in BOOLEAN : FinalizeRename(1, ok)
  \/ \E ok \in BOOLEAN : FinalizeMark(1, ok)
  \/ \E ok \in BOOLEAN : FinalizeHistory(1, ok)
  \/ MonitorCheck(1)
  \/ \E cpu \in {50, 95} : MonitorAct(1, cpu, 50, FALSE, FALSE, << >>, TRUE)
  \/ JobStopTerminate(1)
  \/ JobStopMark

SpecTick == InitTick /\ [][NextTick]_vars

\* POST /schedule/disable: config = schedule_manager.schedule_config;
\* config['enabled'] = False; schedule_manager.save_schedule(config)
disable_schedule ==
  /\ is_enabled
  /\ save_schedule([schedule_config EXCEPT !.enabled = FALSE])

\* The engine of SpecTick without throttling and manual override, an admin
\* disabling the schedule at any moment.
NextDisable ==
  \/ start_encoding(1)
  \/ disable_schedule
  \/ \E t \in TickInstants : check_and_trigger(1, t)
  \/ ProcessQueueBegin(1)
  \/ PoolLoopTop(1)
  \/ PoolSelect(1, << >>)
  \/ PoolRemoveJob(1)
  \/ JobStart(1)
  \/ \E ok \in BOOLEAN : JobSpawn(1, ok)
  \/ \E rc \in {0, 1}, output \in {"enc", "none"} : TranscoderExit(1, rc, output)
  \/ JobWait(1)
  \/ FinalizeCheck(1)
  \/ \E ok \in BOOLEAN : FinalizeUnlink(1, ok)
  \/ \E ok \in BOOLEAN : FinalizeRename(1, ok)
  \/ \E ok \in BOOLEAN : FinalizeMark(1, ok)
  \/ \E ok \in BOOLEAN : FinalizeHistory(1, ok)
  \/ JobStopTerminate(1)
  \/ JobStopMark

SpecDisable == InitTick /\ [][NextDisable]_vars

\* ===================================================================== claims
\* Positions of a loop thread at which its EncodingJob is between the start of
\* start() and the end of _finalize_encoding.
JobPcs == {"start", "spawn", "reading", "fin_check", "fin_unlink", "fin_rename",
           "fin_mark", "fin_hist"}
FinalizePcs == {"fin_check", "fin_unlink", "fin_rename", "fin_mark", "fin_hist"}

\* Some EncodingJob is at work on item i.
InProgress(i) == \E l \in Loops : job[l].item = i /\ pc[l] \in JobPcs

\* The history table has a row written for item i.
HasHistory(i) == \E k \in 1..Len(history) : history[k].item = i

\* C1: each pending item is taken by at most one EncodingJob: no two jobs of
\* the pool hold the same queue item.
C1_ItemTakenOnce ==
  \A l1, l2 \in active_jobs : l1 # l2 => job[l1].item # job[l2].item

\* C2: no two queue rows with the same file_path are both in a status other
\* than completed or failed.
C2_NoDuplicateLiveRows ==
  \A a, b \in DOMAIN queue :
    (a # b /\ queue[a].file_path = queue[b].file_path)
    => (queue[a].status \in {"completed", "failed"}
        \/ queue[b].status \in {"completed", "failed"})

\* C6: a poll pass of the watcher inserts no queue row for a file that was in
\* the directory at the initial scan, whatever the enumerations returned.
C6_WatcherSkipsInitialFiles ==
  [][(\E files \in SUBSET IntakeFiles, perm_ok \in BOOLEAN : check_watches(files, perm_ok))
       => \A k \in (Len(queue) + 1)..Len(queue') :
            queue'[k].file_path \notin initial_files]_vars

\* A pass has found a file of the initial scan to be new (an earlier
\* enumeration had lost it) and has ended without a queue row for it.
C6_Witness ==
  /\ watcher = "polling"
  /\ \E f \in initial_files :
       f \in new_files /\ f \in known /\ ~Queued(queue, f)

\* C8: at most one row of the profiles table has is_default = 1, in every
\* committed state of the table, whatever the interleaving of the writers.
C8_SingleDefault == Cardinality(DefaultRows(profiles)) <= 1

\* A created default has been committed while the other thread holds the
\* write lock for an update that sets another row as the default.
C8_Witness ==
  /\ \E r \in profiles : r.id = MaxProfiles /\ r.is_default = 1
  /\ \E w \in Writers :
       /\ pw[w].pc = "commit" /\ pw[w].op = "update"
       /\ pw[w].is_default = 1 /\ pw[w].id # MaxProfiles
       /\ \E r \in pw[w].work : r.id = pw[w].id /\ r.is_default = 1

\* C3: whenever _finalize_encoding ends with the item marked failed, a file
\* still exists at the original path.
C3_FailedFinalizeKeepsOriginal ==
  [][\A l \in Loops :
       (pc[l] \in FinalizePcs /\ pc'[l] = "remove"
          /\ queue'[job[l].item].status = "failed")
       => fs'[JobPath(l)] # "none"]_vars

\* C4: for every item a supervisor has run (and is no longer running), a
\* history record exists if and only if the item's status is completed.
C4_HistoryIffCompleted ==
  \A i \in Items :
    (queue[i].status \in {"processing", "paused", "completed", "failed"} /\ ~InProgress(i))
    => (HasHistory(i) <=> queue[i].status = "completed")

\* C5: a history record is inserted only by a job that is past the delete of
\* the original and the rename of its output, once per job, with the final
\* path as file_path, and a file exists at that path at the moment of
\* insertion.
C5_HistoryAfterReplace ==
  [][history' # history =>
       \E l \in Loops :
         /\ pc[l] = "fin_hist" /\ pc'[l] = "remove"
         /\ Len(history') = Len(history) + 1
         /\ SubSeq(history', 1, Len(history)) = history
         /\ history'[Len(history')].file_path = FinalPath(JobPath(l))
         /\ history'[Len(history')].item = job[l].item
         /\ \A k \in 1..Len(history) :
              ~(history[k].item = job[l].item /\ history[k].loop = l)
         /\ fs[FinalPath(JobPath(l))] # "none"]_vars

\* C7: the number of EncodingJobs with a live transcoder child is at most
\* max_concurrent.
C7_AtMostMaxConcurrent ==
  Cardinality({l \in Loops : Alive(job[l])}) <= max_concurrent

\* C9: once an item is failed or completed, no step of the engine changes its
\* status.
C9_TerminalStatusStays ==
  [][\A i \in Items :
       queue[i].status \in {"failed", "completed"}
       => queue'[i].status = queue[i].status]_vars

\* C10: completed_at is set if and only if the status is completed or failed.
C10_CompletedAtIffTerminal ==
  \A i \in Items :
    queue[i].completed_at <=> queue[i].status \in {"completed", "failed"}

\* C11: the persisted progress of a queue item is 100 if and only if its
\* status is completed.
C11_ProgressFullIffCompleted ==
  \A i \in Items : queue[i].progress = 100 <=> queue[i].status = "completed"


\* C12: whenever is_within_schedule is evaluated, it answers true if and only
\* if the saved schedule is enabled, the weekday is one of the saved days, and
\* the time lies in [start, end] (start <= end) or at or after start or at or
\* before end (start > end).
C12_WithinScheduleIffInWindow ==
  [][now' # now =>
       (within_schedule' <=>
          /\ schedule.enabled
          /\ now'.weekday \in {schedule.days_of_week[k] : k \in DOMAIN schedule.days_of_week}
          /\ LET start == TimeKey(schedule.start_time.hour, schedule.start_time.minute, 0)
                 end == TimeKey(schedule.end_time.hour, schedule.end_time.minute, 0)
                 t == TimeKey(now'.hour, now'.minute, now'.second)
             IN \/ start <= end /\ start <= t /\ t <= end
                \/ start > end /\ (t >= start \/ t <= end))]_vars

\* C13: a tick of the scheduler (the only step that moves now) changes
\* nothing under manual_override; otherwise it starts a process_queue thread
\* when the time is inside the window and the pool is not running, stops the
\* pool and hands every active job to stop() when the time is outside and the
\* pool is running, and changes nothing in the remaining cases.
C13_TickFollowsSchedule ==
  [][now' # now =>
       IF manual_override
         THEN UNCHANGED <<engineVars, manual_override>>
       ELSE IF is_within_schedule(now') /\ ~is_running
         THEN /\ \E l \in Loops : pc[l] = "idle" /\ pc' = [pc EXCEPT ![l] = "spawned"]
              /\ UNCHANGED <<queue, history, fs, is_running, active_jobs, job, mon, stopper>>
       ELSE IF ~is_within_schedule(now') /\ is_running
         THEN /\ ~is_running'
              /\ stopper'.todo = active_jobs
              /\ active_jobs # {} => stopper'.pc = "jobs"
              /\ UNCHANGED <<queue, history, fs, active_jobs, pc, job, mon>>
       ELSE UNCHANGED engineVars]_vars

\* The tick of Monday 06:00:30, half a minute past the end of the window, has
\* stopped the running pool and handed its active job to stop().
C13_Witness ==
  /\ ~manual_override
  /\ now = [weekday |-> 0, hour |-> 6, minute |-> 0, second |-> 30]
  /\ ~is_within_schedule(now)
  /\ ~is_running
  /\ stopper.pc = "jobs"
  /\ stopper.todo = {1}

\* C14: a start or a stop of the pool that is not the scheduler's (now does not
\* move) leaves manual_override set.
C14_UserActionSetsOverride ==
  [][(/\ now' = now
      /\ \/ \E l \in Loops : pc[l] = "idle" /\ pc'[l] = "spawned"
         \/ is_running /\ ~is_running')
       => manual_override']_vars

\* C15: once stop() has marked the item of the job it terminated as failed
\* with 'Manually stopped', no later step (start()'s handling of the child's
\* exit in particular) changes that error message.
C15_ManuallyStoppedStays ==
  [][\A i \in Items :
       (queue[i].status = "failed" /\ queue[i].error_message = "Manually stopped")
         => queue'[i].error_message = "Manually stopped"]_vars

\* C16: when stop() has returned for a job whose child stays suspended with
\* the SIGTERM pending, and the job's monitor thread has ended (nothing will
\* resume the child), the item is failed.
C16_StopMarksSuspendedJob ==
  \A l \in Loops :
    (job[l].proc = "suspended_term" /\ mon[l] = "off" /\ l \notin stopper.todo)
      => queue[job[l].item].status = "failed"

\* C17: a pause of a running, unpaused job suspends the child and sets the
\* item's status to paused with the reason given; a resume of a paused job
\* whose child is suspended lets the child run, sets the status to processing
\* and clears the reason; and while the child is alive the item's status is
\* paused exactly when the job's is_paused flag is set.
C17_PauseResume ==
  /\ [](\A l \in Loops :
          Alive(job[l]) => (queue[job[l].item].status = "paused" <=> job[l].is_paused))
  /\ [][\A l \in Loops :
          /\ (job[l].proc = "running" /\ ~job[l].is_paused /\ job'[l].is_paused)
               => /\ job'[l].proc = "suspended"
                  /\ queue'[job[l].item].status = "paused"
                  /\ queue'[job[l].item].paused_reason = "resources"
          /\ (job[l].proc = "suspended" /\ job[l].is_paused /\ ~job'[l].is_paused)
               => /\ job'[l].proc = "running"
                  /\ queue'[job[l].item].status = "processing"
                  /\ queue'[job[l].item].paused_reason = ""]_vars

\* C18: once a run of scan_root has returned and left rows in the queue, no
\* later run over the same tree inserts a row: the length of the queue stays
\* what it was when the run returned. (A run that found the queue empty and
\* inserted nothing has returned to the state it started from.)
C18_RescanInsertsNothing ==
  \A n \in 1..MaxQueue :
    []((scan[1].pc = "idle" /\ Len(queue) = n) => [](Len(queue) = n))

\* A later run is under way: it has passed the first file, and the file it has
\* still to check has its row from the run before.
C18_Witness ==
  /\ scan[1].pc = "next"
  /\ scan[1].files = {OutputPath(LibraryPath(1))}
  /\ Queued(queue, OutputPath(LibraryPath(1)))
  /\ Queued(queue, LibraryPath(1))

\* C19: no row of the queue is for a file named <stem>_optimized.<ext>.
C19_ScanSkipsOptimized ==
  \A k \in DOMAIN queue : queue[k].file_path.opt = 0

\* C20: the pass that first visits the watch (the step that gives the watch
\* its entry in _known_files) submits no file for queueing and inserts no row.
C20_FirstPassOnlySeeds ==
  [][(1 \notin DOMAIN known_files /\ 1 \in DOMAIN known_files')
       => (new_files' = {} /\ queue' = queue)]_vars

\* C21: a poll pass that finds a file new which was not in the directory at the
\* initial scan, has no queue row and needs encoding, leaves exactly one queue
\* row for it, pending or permission_error.
C21_NewFileQueuedOnce ==
  [][(\E files \in SUBSET IntakeFiles, perm_ok \in BOOLEAN : check_watches(files, perm_ok))
       => \A f \in new_files' \ initial_files :
            (~Queued(queue, f) /\ needs_encoding(analyze_file(fs[f]), [codec |-> TargetCodec, resolution |-> ""]))
              => /\ Cardinality({k \in DOMAIN queue' : queue'[k].file_path = f}) = 1
                 /\ \A k \in DOMAIN queue' :
                      queue'[k].file_path = f
                        => queue'[k].status \in {"pending", "permission_error"}]_vars

\* C22: when start() handles a child that has ended with a non-zero return
\* code, the item becomes failed with a message that names the code, no
\* history row is written and no file is touched; and such a job never enters
\* _finalize_encoding.
C22_NonZeroExitFails ==
  /\ [](\A l \in Loops :
          (job[l].proc = "exited" /\ job[l].rc # 0) => pc[l] \notin FinalizePcs)
  /\ [][\A l \in Loops :
          (pc[l] = "reading" /\ job[l].proc = "exited" /\ job[l].rc # 0 /\ pc'[l] # "reading")
            => /\ queue'[job[l].item].status = "failed"
               /\ job[l].rc = 1
                    => queue'[job[l].item].error_message = "HandBrakeCLI exited with code 1"
               /\ history' = history
               /\ fs' = fs]_vars

\* start() has handled a child that ended with return code 1: the item is
\* failed with the code in its message, the original is in place and there is
\* no history row.
C22_Witness ==
  \E l \in Loops :
    /\ pc[l] = "remove"
    /\ job[l].proc = "exited" /\ job[l].rc = 1
    /\ queue[job[l].item].status = "failed"
    /\ queue[job[l].item].error_message = "HandBrakeCLI exited with code 1"
    /\ fs[JobPath(l)] = "src"
    /\ history = << >>

\* C23: when building the transcoder command fails for the item the pool
\* took, the step of start() that meets the failure marks the item failed with
\* an error message and the pool thread lives on to take the next item.
C23_BuildFailureMarksFailed ==
  [][\A l \in Loops :
       (pc[l] = "start" /\ BuildCommandRaises(job[l].resolution) /\ pc'[l] # "start")
         => /\ queue'[job[l].item].status = "failed"
            /\ queue'[job[l].item].error_message # ""
            /\ pc'[l] # "idle"]_vars

\* C24: when the transcoder has exited with 0 and its output file is missing
\* or has 0 bytes, the finalisation step that looks for the output marks the
\* item failed, and no step of that finalisation deletes the original.
C24_MissingOrEmptyOutputFails ==
  /\ [][\A l \in Loops :
          (pc[l] = "fin_check" /\ fs[OutputPath(JobPath(l))] \in {"none", "empty"}
             /\ fs[JobPath(l)] # "none" /\ pc'[l] # "fin_check")
            => queue'[job[l].item].status = "failed" /\ pc'[l] = "remove"]_vars
  /\ [][\A l \in Loops :
          (pc[l] \in {"fin_check", "fin_unlink"} /\ fs[OutputPath(JobPath(l))] \in {"none", "empty"})
            => fs'[JobPath(l)] = fs[JobPath(l)]]_vars

\* C25: when the final path (the original's stem with the container's
\* extension) is occupied by a file other than the original, the rename step of
\* finalisation fails: the item is marked failed and finalisation ends there,
\* so that no history row is written for it.
C25_ExistingFinalPathFails ==
  [][\A l \in Loops :
       (pc[l] = "fin_rename" /\ FinalPath(JobPath(l)) # JobPath(l)
          /\ fs[FinalPath(JobPath(l))] # "none" /\ pc'[l] # "fin_rename")
         => /\ queue'[job[l].item].status = "failed"
            /\ pc'[l] = "remove"
            /\ history' = history]_vars


\* C26 as stated: _needs_encoding answers true if and only if the current
\* codec is 'unknown', or the target codec is set and differs from the current
\* codec, or the target resolution is non-empty and the current resolution is
\* known and differs from it.
C26_NeedsEncodingIff ==
  assessed.done =>
    (assessed.needs_encoding <=>
       \/ assessed.current_specs.codec = "unknown"
       \/ /\ assessed.target_specs.codec # ""
          /\ assessed.current_specs.codec # assessed.target_specs.codec
       \/ /\ assessed.target_specs.resolution # ""
          /\ assessed.current_specs.resolution # "unknown"
          /\ assessed.current_specs.resolution # assessed.target_specs.resolution)

\* C26, amended: the same, with the target resolution 'preserve' counted as no
\* target resolution.
C26_NeedsEncodingIffPreserve ==
  assessed.done =>
    (assessed.needs_encoding <=>
       \/ assessed.current_specs.codec = "unknown"
       \/ /\ assessed.target_specs.codec # ""
          /\ assessed.current_specs.codec # assessed.target_specs.codec
       \/ /\ assessed.target_specs.resolution \notin {"", "preserve"}
          /\ assessed.current_specs.resolution # "unknown"
          /\ assessed.current_specs.resolution # assessed.target_specs.resolution)

\* A file at the target codec is queued because of its resolution alone.
C26_Witness ==
  /\ assessed.done
  /\ assessed.needs_encoding
  /\ assessed.current_specs = [codec |-> "av1", resolution |-> "1920x1080"]
  /\ assessed.target_specs = [codec |-> "av1", resolution |-> "1280x720"]

\* C27: for every file size and every pair of the savings table,
\* _estimate_savings is the size times the table's fraction, truncated: 0.50
\* for any source but av1 (unknown included) to av1; 0.40 for h264, mpeg2,
\* mpeg4, xvid, wmv and unknown to h265; 0.30 for mpeg2, mpeg4, xvid, wmv and
\* unknown to h264; 0 when the source is the target.
C27_SavingsTable ==
  assessed.done =>
    LET size == assessed.file_size
        source == assessed.current_specs.codec
        target == assessed.target_specs.codec
        savings == assessed.estimated_savings_bytes
    IN /\ (target = "av1" /\ source \in {"h265", "h264", "mpeg2", "mpeg4", "xvid", "wmv", "unknown"})
            => savings = (size * 50) \div 100
       /\ (target = "h265" /\ source \in {"h264", "mpeg2", "mpeg4", "xvid", "wmv", "unknown"})
            => savings = (size * 40) \div 100
       /\ (target = "h264" /\ source \in {"mpeg2", "mpeg4", "xvid", "wmv", "unknown"})
            => savings = (size * 30) \div 100
       /\ (target \in {"av1", "h265", "h264"} /\ source = target) => savings = 0

\* C28: whenever a pool thread starts a job (the step that enters
\* EncodingJob.start), the job's item has status pending and comes first among
\* the pending items in the order priority descending, then created_at; an item
\* in permission_error or any other status is never started.
C28_StartsFirstPending ==
  [][\A l \in Loops :
       (pc[l] = "start" /\ pc'[l] # "start")
         => /\ queue[job[l].item].status = "pending"
            /\ \A k \in PendingItems(queue) \ {job[l].item} :
                 QueueBefore(queue, job[l].item, k)]_vars


\* C29: the step that deletes a scan root deletes no queue row, and every row
\* that referenced the root has root_id NULL after it.
C29_DeleteRootNullsReferences ==
  [][\A root_id \in {1, 2} :
       ((\E r \in scan_roots : r.id = root_id) /\ ~(\E r \in scan_roots' : r.id = root_id))
         => /\ DOMAIN queue' = DOMAIN queue
            /\ \A k \in DOMAIN queue :
                 queue[k].root_id = root_id => queue'[k].root_id = 0]_vars

\* C30: scan_all_roots does not end by the error of one root: when it has
\* ended it has returned, with no enabled root left unvisited.
C30_RootErrorDoesNotAbort ==
  sweep.pc \in {"raised", "returned"} => (sweep.pc = "returned" /\ sweep.todo = << >>)

\* C31: for a saved schedule whose end_time is at or before its start_time
\* (end_time equal to start_time included), is_within_schedule evaluated on a
\* scheduled day answers (t >= start or t <= end): the window is overnight,
\* and with end = start it holds at every time of that day.
C31_EndNotAfterStartIsOvernight ==
  [][(/\ now' # now
      /\ schedule.enabled
      /\ now'.weekday \in {schedule.days_of_week[k] : k \in DOMAIN schedule.days_of_week}
      /\ TimeKey(schedule.end_time.hour, schedule.end_time.minute, 0)
           <= TimeKey(schedule.start_time.hour, schedule.start_time.minute, 0))
       => (within_schedule' <=>
             \/ TimeKey(now'.hour, now'.minute, now'.second)
                  >= TimeKey(schedule.start_time.hour, schedule.start_time.minute, 0)
             \/ TimeKey(now'.hour, now'.minute, now'.second)
                  <= TimeKey(schedule.end_time.hour, schedule.end_time.minute, 0))]_vars


\* C32: once stop() has been called with a job in the pool, the process_queue
\* loop eventually exits and no transcoder child is left running or suspended.
C32_StopEndsLoopAndChildren ==
  (stopper.pc = "jobs") ~> (\A l \in Loops : pc[l] = "idle" /\ ~Alive(job[l]))

\* C33: a finalisation step taken for an item whose status is already
\* completed ends the finalisation there and neither deletes nor renames any
\* file.
C33_CompletedItemNotFinalisedAgain ==
  [][\A l \in Loops :
       (pc[l] \in {"fin_check", "fin_unlink", "fin_rename"} /\ pc'[l] # pc[l]
          /\ queue[job[l].item].status = "completed")
         => /\ fs' = fs
            /\ pc'[l] = "remove"]_vars


C35_FailedMutatorRolledBack ==
  [][\A w \in Writers :
       (pw[w].pc \in {"clear", "clear_others", "insert", "update"} /\ pw'[w].pc = "idle")
         => /\ profiles' = profiles
            /\ DefaultRows(profiles') = DefaultRows(profiles)
            /\ next_profile_id' = next_profile_id]_vars

\* C35 witness: a create_profile with is_default set has cleared the default in
\* its transaction and its INSERT is about to hit a name that exists.
C35_Witness ==
  \E w \in Writers :
    /\ pw[w].op = "create" /\ pw[w].pc = "insert" /\ db_writer = w
    /\ pw[w].name \in NamesOf(pw[w].work)
    /\ DefaultRows(profiles) # {}
    /\ DefaultRows(pw[w].work) = {}

\* C36: the response of check_thresholds sets should_pause exactly when the CPU
\* reading, the memory reading or, with GPU monitoring available, the highest
\* GPU utilisation is strictly above its threshold; each *_exceeded flag is its
\* own comparison, and a machine without GPU monitoring never has gpu_exceeded.
C36_ThresholdFlags ==
  LET u == throttle.sample
      r == throttle.thresholds
      gpu_over == /\ u.gpu_available /\ u.nvml_ok
                  /\ \E k \in DOMAIN u.gpus : u.gpus[k] > 90
  IN  throttle # NoCheck =>
        /\ r.cpu_exceeded <=> u.cpu > 90
        /\ r.memory_exceeded <=> u.memory > 85
        /\ r.gpu_exceeded <=> gpu_over
        /\ ~u.gpu_available => ~r.gpu_exceeded
        /\ r.should_pause <=> (u.cpu > 90 \/ u.memory > 85 \/ gpu_over)

\* C36 witness: CPU and memory exactly at their thresholds, a GPU above its
\* own: the GPU alone asks for the pause.
C36_Witness ==
  /\ throttle.sample.cpu = 90 /\ throttle.sample.memory = 85
  /\ throttle.sample.gpus = <<89, 91>> /\ throttle.sample.gpu_available
  /\ throttle.thresholds.gpu_exceeded /\ throttle.thresholds.should_pause
  /\ ~throttle.thresholds.cpu_exceeded /\ ~throttle.thresholds.memory_exceeded

\* C40: a call of should_pause_encoding by a monitor thread answers
\* should_pause = false only if that call made a threshold check and the check
\* found nothing exceeded; hence a paused job is resumed only on readings under
\* every threshold.
C40_NoPauseOnlyAfterCheck ==
  [][\A l \in Loops :
       (mon[l] = "sleep" /\ mon'[l] = "check" /\ ~throttle'.should_pause)
         => /\ throttle'.checked
            /\ ~throttle'.thresholds.cpu_exceeded
            /\ ~throttle'.thresholds.memory_exceeded
            /\ ~throttle'.thresholds.gpu_exceeded]_vars

\* C37: when a process_queue thread returns because no item is pending, the
\* pool no longer reports is_running, so that the next start request or
\* scheduler tick can start a new loop.
C37_EmptyQueueClearsRunning ==
  [][\A l \in Loops :
       (pc[l] = "select" /\ pc'[l] = "idle" /\ PendingItems(queue) = {}) => ~is_running']_vars


\* C38: a pending item whose profile was deleted does not hold up the pool:
\* once the pool runs, every pending item whose profile exists is started (or
\* loses its profile), whatever the priority of the items without a profile.
C38_MissingProfileDoesNotBlock ==
  \A i \in Items :
    (is_running /\ queue[i].status = "pending" /\ \E r \in profiles : r.id = queue[i].profile_id)
      ~> (queue[i].status # "pending" \/ \A r \in profiles : r.id # queue[i].profile_id)

\* C39: once the schedule has been saved with enabled = false, the periodic
\* check is gone: whatever runs at a later minute while the schedule is
\* disabled neither starts nor stops the pool.
C39_DisabledScheduleLeavesPool ==
  [][(~is_enabled /\ now' # now) =>
       /\ is_running' = is_running
       /\ pc' = pc
       /\ stopper' = stopper]_vars
====
